---- MODULE Spec2Model ----
(***************************************************************************)
(* HOSKDOG: the faucet API (POST /api/slurp and its middleware chain), the *)
(* deposit server (build-tx, submit, health) and the relationship          *)
(* analyzer, modelled as state machines.                                   *)
(*                                                                         *)
(* Each subsystem has its own specification over the shared variables; the *)
(* variables of the other subsystems stay parked at their initial value.   *)
(*   Spec          the faucet's POST /api/slurp handler, request by        *)
(*                 request, one action per await point                     *)
(*   SpecDeposit   the deposit server, every route, one action per request *)
(*   SpecHttp      the faucet server's middleware chain and routes, and    *)
(*                 the deposit server's requests outside its two           *)
(*                 transaction handlers, one action per request            *)
(*   SpecRisk      calculateRiskScore on graphs of up to MaxConnections    *)
(*   SpecOwnership analyzeBeneficialOwnership on the indexer's answers     *)
(*   SpecTiming    analyzeTransactionTiming and groupByTransactionTiming   *)
(*   SpecAnalysis  analyzeAddressRelationships on the indexer's answers    *)
(*   SpecApi       the four analysis routes, one action per request        *)
(*   SpecClient    the deposit page (deposit-client.js), one action per    *)
(*                 event, await and timer                                  *)
(*   SpecPreview   the deposit page with generatePreview and estimateFee   *)
(*   SpecRun       the route handlers of both servers, await by await      *)
(***************************************************************************)
EXTENDS Integers, Sequences, FiniteSets, TLC

(***************************************************************************)
(* Bounds of the model.                                                    *)
(***************************************************************************)
\* number of POST /api/slurp requests in flight or answered
NumReqs == 2
\* the clock runs from 0 to MaxTime ticks (one tick is twelve hours)
MaxTime == 3

(***************************************************************************)
(* Program constants.  Token amounts are in units of 10^9 raw HKDG (1000   *)
(* HKDG at 6 decimals), ADA in whole ADA, so that they fit TLC's integers. *)
(***************************************************************************)
\* 24 * 60 * 60 * 1000 ms, in ticks of twelve hours
OneDay == 2
\* config.faucet.rewards.memeHolders = 690000000000 raw
memeHolders == 690
\* config.faucet.rewards.adaOnly = 420000000000 raw
adaOnly == 420
\* config.faucet.deposits.adaOnly = 3000000 lovelace: the ADA an ADA-only wallet must hold
depositsAdaOnly == 3
\* validateTransaction: the faucet needs at least 2 ADA for fees
MinFeeAda == 2

VARIABLES
  \* ---- faucet: POST /api/slurp ----
  historyFile,          \* logs/slurp-history.json: [exists, data]
  now,                  \* Date.now(), in ticks
  reqs,                 \* the slurp requests: position in the handler and locals
  transfers,            \* the token transfers the faucet wallet submitted
  faucetHkdg,           \* HKDG balance of the faucet wallet
  faucetAda,            \* ADA balance of the faucet wallet
  rateLimitingEnabled,  \* config.faucet.rateLimiting.enabled
  holdsMeme,            \* chain: the addresses holding a qualifying HOSKY/SNEK amount
  adaBalance,           \* chain: ADA balance of each address
  \* ---- deposit server and faucet server, request by request ----
  blockfrostKey,        \* BLOCKFROST_KEY: "unset", "placeholder" or "set"
  nodeEnv,              \* process.env.NODE_ENV
  network,              \* NETWORK: "Mainnet" or "Preprod"
  dbModules,            \* what the deposit server's require of db and redis loaded
  lucidPromise,         \* getLucid's cached promise: "null", "resolved" or "rejected"
  lucidError,           \* the error a rejected lucidPromise carries
  apiLimiter,           \* apiLimiter: the points each IP consumed in its 60 s window
  slurpLimiter,         \* slurpLimiter: the points each IP consumed in its 300 s window
  exchange,             \* the last request and the response it got
  effect,               \* what the server did for the last request
  \* ---- relationship analyzer ----
  graph,                \* calculateRiskScore: the graph it is called with
  riskScore,            \* calculateRiskScore: what it returned (-1: not called yet)
  koiosTxs,             \* the indexer: the tx_list of each address
  addresses,            \* analyzeBeneficialOwnership: the addresses of the request
  ownership,            \* analyzeBeneficialOwnership: what it returned
  relationships,        \* analyzeAddressRelationships: what it returned
  timingAnalyses,       \* groupByTransactionTiming: the analyses it is called with
  timing,               \* groupByTransactionTiming: what it returned or threw
  apiExchange,          \* the last request to an analysis endpoint and its response
  \* ---- deposit clients (browser) ----
  client,               \* public/deposit-client.js: its variables and the page
  preview,              \* the deposit client with generatePreview: its variables and the page
  \* ---- route handlers, await by await ----
  run                   \* the handler invocation in progress: position and responses sent

slurpVars == <<historyFile, now, reqs, transfers, faucetHkdg, faucetAda,
               rateLimitingEnabled, holdsMeme, adaBalance>>

envVars == <<blockfrostKey, nodeEnv, network, dbModules>>

httpVars == <<envVars, lucidPromise, lucidError, apiLimiter, slurpLimiter,
              exchange, effect>>

analyzerVars == <<graph, riskScore, koiosTxs, addresses, ownership, relationships,
                  timingAnalyses, timing, apiExchange>>

clientVars == <<client, preview>>

runVars == <<run>>

vars == <<slurpVars, httpVars, analyzerVars, clientVars, runVars>>

(***************************************************************************)
(* JSON values of a request body and JavaScript strings.  A string is the  *)
(* sequence of its characters; a value carries its typeof.                 *)
(***************************************************************************)
Undefined == [t |-> "undefined", v |-> <<>>]
Str(s) == [t |-> "string", v |-> s]
Num(s) == [t |-> "number", v |-> s]

\* !x is false: a non-empty string or a non-zero number
truthy(x) ==
  \/ x.t = "string" /\ x.v # <<>>
  \/ x.t = "number" /\ x.v # <<"0">>

\* String.prototype.startsWith
startsWith(s, prefix) ==
  Len(s) >= Len(prefix) /\ SubSeq(s, 1, Len(prefix)) = prefix

Digits == {"0", "1", "2", "3", "4", "5", "6", "7", "8", "9"}

digitValue(c) ==
  CASE c = "0" -> 0 [] c = "1" -> 1 [] c = "2" -> 2 [] c = "3" -> 3 [] c = "4" -> 4
    [] c = "5" -> 5 [] c = "6" -> 6 [] c = "7" -> 7 [] c = "8" -> 8 [] c = "9" -> 9

isDigits(s) == \A i \in 1..Len(s) : s[i] \in Digits

RECURSIVE digitsValue(_)
digitsValue(s) ==
  IF s = <<>> THEN 0
  ELSE digitsValue(SubSeq(s, 1, Len(s) - 1)) * 10 + digitValue(s[Len(s)])

\* BigInt(string) for strings without white space or radix prefix: the empty
\* string is 0n, an optionally signed run of decimal digits is its value,
\* anything else throws a SyntaxError (ok = FALSE)
BigInt(s) ==
  IF s = <<>> THEN [ok |-> TRUE, value |-> 0]
  ELSE IF isDigits(s) THEN [ok |-> TRUE, value |-> digitsValue(s)]
  ELSE IF Len(s) > 1 /\ s[1] = "-" /\ isDigits(Tail(s))
  THEN [ok |-> TRUE, value |-> 0 - digitsValue(Tail(s))]
  ELSE IF Len(s) > 1 /\ s[1] = "+" /\ isDigits(Tail(s))
  THEN [ok |-> TRUE, value |-> digitsValue(Tail(s))]
  ELSE [ok |-> FALSE, value |-> 0]

(***************************************************************************)
(* The parked (initial, never changing) state of a subsystem that a        *)
(* specification does not run.                                             *)
(***************************************************************************)
\* the client addresses (req.ip) the faucet server sees
IPs == {"203.0.113.7"}

NoHealth == [status |-> "", configured |-> FALSE, database |-> "", redis |-> ""]

NoExchange ==
  [server |-> "", ip |-> "", method |-> "", path |-> <<>>, body |-> "",
   senderAddress |-> Undefined, lovelace |-> Undefined, signedTxCborHex |-> Undefined,
   amount |-> Undefined,
   status |-> 0, error |-> "", details |-> "", thrown |-> "", handler |-> "",
   retryAfter |-> 0, fields |-> {}, health |-> NoHealth]

NoEffect == [built |-> "", submitted |-> "", lucidNew |-> FALSE, dbInsert |-> FALSE]

NoGraph == [source |-> "", connections |-> <<>>, transactionCount |-> 0,
            firstSeen |-> 0, lastSeen |-> 0]

NoOwnership ==
  [done |-> FALSE, ok |-> FALSE, thrown |-> "", analyses |-> <<>>,
   beneficialOwners |-> <<>>, controlPatterns |-> <<>>,
   distributionMetrics |-> [concentration |-> [num |-> 0, den |-> 1],
                            diversity |-> [num |-> 0, den |-> 1],
                            centralizedAddresses |-> <<>>]]

NoAnalysis == [address |-> "", connections |-> <<>>, clusters |-> <<>>, riskScore |-> 0,
               totalConnections |-> 0]

NoRelationships == [done |-> FALSE, analysis |-> NoAnalysis]

NoApiExchange ==
  [route |-> "", address |-> Undefined, addresses |-> Undefined, indexer |-> "",
   status |-> 0, success |-> FALSE, error |-> "", details |-> "", fields |-> {},
   indexerCalls |-> 0, totalConnections |-> 0]

NoTiming == [called |-> FALSE, version |-> "", ok |-> FALSE, thrown |-> "", groups |-> <<>>]

AnalyzerParked ==
  /\ graph = NoGraph
  /\ riskScore = -1
  /\ koiosTxs = <<>>
  /\ addresses = <<>>
  /\ ownership = NoOwnership
  /\ relationships = NoRelationships
  /\ timingAnalyses = <<>>
  /\ timing = NoTiming
  /\ apiExchange = NoApiExchange

\* parseFloat of an input that is no number
NaN == 0 - 1
\* no amount: null
NoAmount == 0 - 2

\* no transaction: the amount it pays and the amount of the preview that was
\* on the page when prepareDeposit read the amount
NoTx == [amount |-> NoAmount, preview |-> NoAmount]

\* public/deposit-client.js after the page has loaded: no wallet, an empty
\* amount field, the prepare button disabled by updatePrepareButton
NoClient ==
  [connectedWallet |-> FALSE, amountInput |-> NaN, previewDebounceTimer |-> FALSE,
   updating |-> {}, previewComputed |-> FALSE, previewAmount |-> NoAmount,
   prepareDisabled |-> TRUE, isProcessing |-> FALSE,
   building |-> NoTx, pendingTx |-> NoTx, modal |-> FALSE,
   checked |-> [passed |-> FALSE, amount |-> NoAmount, preview |-> NoAmount],
   signing |-> FALSE, signTx |-> NoTx, resetTimer |-> FALSE]

NoFeeResult ==
  [ok |-> FALSE, thrown |-> "", source |-> "", feeLovelace |-> 0, unsignedTxCborHex |-> FALSE]

\* the deposit client with generatePreview after the page has loaded
NoPreview ==
  [connectedWallet |-> FALSE, amountInput |-> NaN, blockfrostKey |-> FALSE,
   previewDisabled |-> TRUE, isProcessing |-> FALSE, estimating |-> NoAmount,
   previewGenerated |-> FALSE, pendingTx |-> NoAmount, previewShown |-> FALSE,
   previewError |-> FALSE, done |-> FALSE, server |-> "", keySupplied |-> FALSE,
   feeResult |-> NoFeeResult, prepareDisabled |-> TRUE, preparing |-> FALSE,
   modal |-> FALSE, signing |-> FALSE, resetTimer |-> FALSE]

ClientParked ==
  /\ client = NoClient
  /\ preview = NoPreview

\* no handler invocation yet
NoRun == [id |-> 0, handler |-> "", body |-> "", pc |-> "idle", responses |-> 0, status |-> 0]

RunParked == run = NoRun

(***************************************************************************)
(* POST /api/slurp                                                         *)
(***************************************************************************)
Req == 1..NumReqs

\* a well-formed address has the bech32 shape Lucid's getAddressDetails accepts
ValidAddresses == {"addr1_a", "addr1_b"}
\* "" stands for a missing (falsy) field
AddressInputs == ValidAddresses \cup {"", "bogus"}
TierInputs == {"meme", "ada", "gold", ""}

NoReq ==
  [pc |-> "idle", address |-> "", tier |-> "", rewardAmount |-> 0, txHash |-> 0,
   timestamp |-> 0, hist |-> <<>>, status |-> 0, error |-> ""]

\* checkRecentClaims, after the file was read: history.find(claim =>
\* claim.address === address && claim.timestamp > oneDayAgo)
hasRecentClaim(history, address, t) ==
  \E i \in 1..Len(history) :
     /\ history[i].address = address
     /\ history[i].timestamp > t - OneDay

\* tier === 'meme' ? rewards.memeHolders : rewards.adaOnly
rewardFor(tier) == IF tier = "meme" THEN memeHolders ELSE adaOnly

\* the handler up to its first await: required fields, tier
Receive(r, address, tier) ==
  /\ reqs[r].pc = "idle"
  /\ LET q == [reqs[r] EXCEPT !.address = address, !.tier = tier] IN
     reqs' = [reqs EXCEPT ![r] =
       IF address = "" \/ tier = ""
       THEN [q EXCEPT !.pc = "done", !.status = 400,
                      !.error = "Address and tier are required"]
       ELSE IF tier \notin {"meme", "ada"}
       THEN [q EXCEPT !.pc = "done", !.status = 400, !.error = "Invalid tier"]
       ELSE IF rateLimitingEnabled
       THEN [q EXCEPT !.pc = "checkExists"]
       ELSE [q EXCEPT !.pc = "validate"]]
  /\ UNCHANGED <<historyFile, now, transfers, faucetHkdg, faucetAda,
                 rateLimitingEnabled, holdsMeme, adaBalance>>
  /\ UNCHANGED <<httpVars, analyzerVars, clientVars, runVars>>

\* checkRecentClaims: await fs.pathExists(slurpHistoryPath)
CheckExists(r) ==
  /\ reqs[r].pc = "checkExists"
  /\ reqs' = [reqs EXCEPT ![r].pc =
       IF historyFile.exists THEN "checkRead" ELSE "validate"]
  /\ UNCHANGED <<historyFile, now, transfers, faucetHkdg, faucetAda,
                 rateLimitingEnabled, holdsMeme, adaBalance>>
  /\ UNCHANGED <<httpVars, analyzerVars, clientVars, runVars>>

\* checkRecentClaims: await fs.readJson, the find, and the handler's 429
CheckRead(r) ==
  /\ reqs[r].pc = "checkRead"
  /\ reqs' = [reqs EXCEPT ![r] =
       IF hasRecentClaim(historyFile.data, reqs[r].address, now)
       THEN [@ EXCEPT !.pc = "done", !.status = 429,
                      !.error = "Already claimed today. Please wait 24 hours."]
       ELSE [@ EXCEPT !.pc = "validate"]]
  /\ UNCHANGED <<historyFile, now, transfers, faucetHkdg, faucetAda,
                 rateLimitingEnabled, holdsMeme, adaBalance>>
  /\ UNCHANGED <<httpVars, analyzerVars, clientVars, runVars>>

\* validateTransaction without its balance checks
validateAddressOnly(recipientAddress, amount) ==
  IF recipientAddress \notin ValidAddresses
  THEN [valid |-> FALSE, error |-> "Invalid recipient address format"]
  ELSE [valid |-> TRUE, error |-> ""]

\* validateTransaction: address format, then the faucet's balances
validateTransaction(recipientAddress, amount) ==
  IF recipientAddress \notin ValidAddresses
  THEN [valid |-> FALSE, error |-> "Invalid recipient address format"]
  ELSE IF faucetHkdg < amount
  THEN [valid |-> FALSE, error |-> "Insufficient HKDG balance"]
  ELSE IF faucetAda < MinFeeAda
  THEN [valid |-> FALSE, error |-> "Insufficient ADA for transaction fees"]
  ELSE [valid |-> TRUE, error |-> ""]

Validate(r) ==
  /\ reqs[r].pc = "validate"
  /\ LET rewardAmount == rewardFor(reqs[r].tier)
         validation == validateTransaction(reqs[r].address, rewardAmount) IN
     reqs' = [reqs EXCEPT ![r] =
       IF ~validation.valid
       THEN [@ EXCEPT !.pc = "done", !.status = 400, !.error = validation.error,
                      !.rewardAmount = rewardAmount]
       ELSE [@ EXCEPT !.pc = "send", !.rewardAmount = rewardAmount]]
  /\ UNCHANGED <<historyFile, now, transfers, faucetHkdg, faucetAda,
                 rateLimitingEnabled, holdsMeme, adaBalance>>
  /\ UNCHANGED <<httpVars, analyzerVars, clientVars, runVars>>

\* sendHKDGTokens succeeds: the transaction is built, signed and submitted
SendOk(r) ==
  /\ reqs[r].pc = "send"
  /\ faucetHkdg >= reqs[r].rewardAmount
  /\ LET txHash == Len(transfers) + 1 IN
     /\ transfers' = Append(transfers,
          [address |-> reqs[r].address, amount |-> reqs[r].rewardAmount,
           tier |-> reqs[r].tier, txHash |-> txHash, time |-> now])
     /\ reqs' = [reqs EXCEPT ![r].pc = "logStart", ![r].txHash = txHash]
  /\ faucetHkdg' = faucetHkdg - reqs[r].rewardAmount
  /\ UNCHANGED <<historyFile, now, faucetAda, rateLimitingEnabled, holdsMeme,
                 adaBalance>>
  /\ UNCHANGED <<httpVars, analyzerVars, clientVars, runVars>>

\* sendHKDGTokens throws (insufficient funds, network): the handler's catch, 500
SendFail(r) ==
  /\ reqs[r].pc = "send"
  /\ reqs' = [reqs EXCEPT ![r].pc = "done", ![r].status = 500,
                          ![r].error = "Slurp failed"]
  /\ UNCHANGED <<historyFile, now, transfers, faucetHkdg, faucetAda,
                 rateLimitingEnabled, holdsMeme, adaBalance>>
  /\ UNCHANGED <<httpVars, analyzerVars, clientVars, runVars>>

\* logSlurp is called with timestamp: Date.now(); await fs.pathExists
LogStart(r) ==
  /\ reqs[r].pc = "logStart"
  /\ reqs' = [reqs EXCEPT ![r].timestamp = now, ![r].hist = <<>>,
                          ![r].pc = IF historyFile.exists THEN "logRead" ELSE "logWrite"]
  /\ UNCHANGED <<historyFile, now, transfers, faucetHkdg, faucetAda,
                 rateLimitingEnabled, holdsMeme, adaBalance>>
  /\ UNCHANGED <<httpVars, analyzerVars, clientVars, runVars>>

\* logSlurp: history = await fs.readJson(historyPath)
LogRead(r) ==
  /\ reqs[r].pc = "logRead"
  /\ reqs' = [reqs EXCEPT ![r].hist = historyFile.data, ![r].pc = "logWrite"]
  /\ UNCHANGED <<historyFile, now, transfers, faucetHkdg, faucetAda,
                 rateLimitingEnabled, holdsMeme, adaBalance>>
  /\ UNCHANGED <<httpVars, analyzerVars, clientVars, runVars>>

\* the entry logSlurp pushes
slurpEntry(q) ==
  [address |-> q.address, tier |-> q.tier, amount |-> q.rewardAmount,
   txHash |-> q.txHash, timestamp |-> q.timestamp, id |-> Len(q.hist) + 1]

\* logSlurp: history.push(...); await fs.writeJson(historyPath, history)
logSlurp(q) == [exists |-> TRUE, data |-> Append(q.hist, slurpEntry(q))]

\* logSlurp writes the file, and the handler answers 200
LogWrite(r) ==
  /\ reqs[r].pc = "logWrite"
  /\ historyFile' = logSlurp(reqs[r])
  /\ reqs' = [reqs EXCEPT ![r].pc = "done", ![r].status = 200]
  /\ UNCHANGED <<now, transfers, faucetHkdg, faucetAda, rateLimitingEnabled,
                 holdsMeme, adaBalance>>
  /\ UNCHANGED <<httpVars, analyzerVars, clientVars, runVars>>

\* fs.writeJson throws: logSlurp's catch logs the error, and the handler answers 200
LogWriteFail(r) ==
  /\ reqs[r].pc = "logWrite"
  /\ reqs' = [reqs EXCEPT ![r].pc = "done", ![r].status = 200]
  /\ UNCHANGED <<historyFile, now, transfers, faucetHkdg, faucetAda,
                 rateLimitingEnabled, holdsMeme, adaBalance>>
  /\ UNCHANGED <<httpVars, analyzerVars, clientVars, runVars>>

\* time passes
Tick ==
  /\ now < MaxTime
  /\ now' = now + 1
  /\ UNCHANGED <<historyFile, reqs, transfers, faucetHkdg, faucetAda,
                 rateLimitingEnabled, holdsMeme, adaBalance>>
  /\ UNCHANGED <<httpVars, analyzerVars, clientVars, runVars>>

SlurpInit ==
  /\ historyFile = [exists |-> FALSE, data |-> <<>>]
  /\ now = 0
  /\ reqs = [r \in Req |-> NoReq]
  /\ transfers = <<>>
  /\ faucetHkdg = memeHolders + adaOnly
  /\ faucetAda \in {1, 15}
  /\ rateLimitingEnabled \in BOOLEAN
  \* addr1_a holds HOSKY and 1 ADA; addr1_b holds no token and 3 ADA
  /\ holdsMeme = {"addr1_a"}
  /\ adaBalance = [a \in ValidAddresses |-> IF a = "addr1_a" THEN 1 ELSE depositsAdaOnly]

HttpParked ==
  /\ blockfrostKey = "set"
  /\ nodeEnv = "production"
  /\ network = "Mainnet"
  /\ dbModules = "none"
  /\ lucidPromise = "null"
  /\ lucidError = ""
  /\ apiLimiter = [ip \in IPs |-> 0]
  /\ slurpLimiter = [ip \in IPs |-> 0]
  /\ exchange = NoExchange
  /\ effect = NoEffect

Init == SlurpInit /\ HttpParked /\ AnalyzerParked /\ ClientParked /\ RunParked

Next ==
  \/ \E r \in Req, address \in AddressInputs, tier \in TierInputs :
       Receive(r, address, tier)
  \/ \E r \in Req : CheckExists(r)
  \/ \E r \in Req : CheckRead(r)
  \/ \E r \in Req : Validate(r)
  \/ \E r \in Req : SendOk(r)
  \/ \E r \in Req : SendFail(r)
  \/ \E r \in Req : LogStart(r)
  \/ \E r \in Req : LogRead(r)
  \/ \E r \in Req : LogWrite(r)
  \/ \E r \in Req : LogWriteFail(r)
  \/ Tick

Spec == Init /\ [][Next]_vars

(***************************************************************************)
(* The deposit server: POST /api/build-tx, POST /api/submit                *)
(***************************************************************************)
\* HOSKDOG_RECEIVING_ADDRESS
HOSKDOG_RECEIVING_ADDRESS == "addr1q9lgquer...hoskdog"
OtherRecipient == "addr1q...someone-else"

\* sender addresses: two well-formed ones (mainnet, testnet) and a malformed one
addr1Sender == <<"a", "d", "d", "r", "1", "q", "x">>
addrTestSender == <<"a", "d", "d", "r", "_", "t", "e", "s", "t", "1", "q", "x">>
addrMalformed == <<"a", "d", "d", "r", "!">>

\* lucid.utils.getAddressDetails accepts the address (it throws otherwise)
getAddressDetailsOk(address) == address \in {addr1Sender, addrTestSender}

SenderInputs == {Undefined, Str(addr1Sender), Str(addrTestSender), Str(addrMalformed)}

LovelaceInputs ==
  {Undefined, Num(<<"2", "0", "0", "0", "0", "0", "0">>),
   Str(<<"a", "b", "c">>), Str(<<"1", ".", "5">>), Str(<<"-", "5">>),
   Str(<<"9", "9", "9", "9", "9", "9">>), Str(<<"1", "0", "0", "0", "0", "0", "0">>),
   Str(<<"2", "0", "0", "0", "0", "0", "0">>)}

\* 1 ADA minimum
MIN_LOVELACE == 1000000

\* the messages of the errors the SDK and the network throw
ErrorMessages ==
  {"No UTxOs found at sender address", "Blockfrost 403: invalid project token",
   "connect ETIMEDOUT 10.0.0.7:443"}
\* error.message.includes('UTxO')
includesUTxO(message) == message = "No UTxOs found at sender address"
\* an awaited call returns ("ok") or throws an error with a message
Outcomes == {"ok"} \cup ErrorMessages
\* Lucid.new(provider, NETWORK) returns or fails on the provider
LucidOutcomes == {"ok", "Blockfrost 403: invalid project token"}

\* notConfigured without the placeholder test
keyUnset == blockfrostKey = "unset"

\* !BLOCKFROST_KEY || BLOCKFROST_KEY.includes('YOUR_BLOCKFROST')
notConfigured == blockfrostKey \in {"unset", "placeholder"}

\* the senderAddress network id against the server's NETWORK
senderNetworkId(address) ==
  IF startsWith(address, <<"a", "d", "d", "r", "_", "t", "e", "s", "t">>) THEN 0 ELSE 1
expectedNetworkId == IF network = "Mainnet" THEN 1 ELSE 0

\* a signed transaction as CBOR hex: the bytes end in the output's address
cborOf(recipient) ==
  IF recipient = HOSKDOG_RECEIVING_ADDRESS
  THEN <<"8", "4", "a", "4", "0", "1">>
  ELSE <<"8", "4", "a", "4", "0", "2">>
\* lucid.fromTx: parses the CBOR (ok = FALSE: it throws)
fromTx(hex) ==
  IF hex = <<"8", "4", "a", "4", "0", "1">>
  THEN [ok |-> TRUE, recipient |-> HOSKDOG_RECEIVING_ADDRESS]
  ELSE IF hex = <<"8", "4", "a", "4", "0", "2">>
  THEN [ok |-> TRUE, recipient |-> OtherRecipient]
  ELSE [ok |-> FALSE, recipient |-> ""]

SignedTxInputs ==
  {Undefined, Num(<<"7">>), Str(<<"z", "z">>),
   Str(cborOf(HOSKDOG_RECEIVING_ADDRESS)), Str(cborOf(OtherRecipient))}

\* getLucid: the cached promise, or a new one that Lucid.new settles
getLucid(outcome) ==
  IF lucidPromise = "resolved" THEN [ok |-> TRUE, error |-> "", new |-> FALSE]
  ELSE IF lucidPromise = "rejected" THEN [ok |-> FALSE, error |-> lucidError, new |-> FALSE]
  ELSE IF outcome = "ok" THEN [ok |-> TRUE, error |-> "", new |-> TRUE]
  ELSE [ok |-> FALSE, error |-> outcome, new |-> TRUE]

\* lucidPromise after getLucid
lucidAfter(lucid) ==
  /\ lucidPromise' = IF lucid.ok THEN "resolved" ELSE "rejected"
  /\ lucidError' = lucid.error

\* the catch of build-tx: 400 for a UTxO error, 500 otherwise, both with the message
buildTxCatch(message) ==
  IF includesUTxO(message)
  THEN [status |-> 400, error |-> "Insufficient funds or no UTxOs available",
        details |-> message, thrown |-> message]
  ELSE [status |-> 500, error |-> "Failed to build transaction",
        details |-> message, thrown |-> message]

\* the catch of submit
submitCatch(message) ==
  [status |-> 500, error |-> "Failed to submit transaction", details |-> message,
   thrown |-> message]

answer(status, error, details) ==
  [status |-> status, error |-> error, details |-> details, thrown |-> ""]

\* a request body handled by a route handler of the deposit server, and its response
depositExchange(path, senderAddress, lovelace, signedTxCborHex, amount, handler, r) ==
  [NoExchange EXCEPT
     !.server = "deposit", !.ip = "198.51.100.1", !.method = "POST", !.path = path,
     !.body = "json",
     !.senderAddress = senderAddress, !.lovelace = lovelace,
     !.signedTxCborHex = signedTxCborHex, !.amount = amount,
     !.status = r.status, !.error = r.error, !.details = r.details,
     !.thrown = r.thrown, !.handler = handler,
     !.fields = IF r.status = 200 THEN {"success"}
                ELSE IF r.details = "" THEN {"error"} ELSE {"error", "details"}]

\* app.post('/api/build-tx')
BuildTx(senderAddress, lovelace) ==
  LET exch(r) == depositExchange(<<"api", "build-tx">>, senderAddress, lovelace,
                                 Undefined, Undefined, "build-tx", r)
      lovelaceNum == BigInt(lovelace.v)
  IN
  IF ~truthy(senderAddress) \/ senderAddress.t # "string"
  THEN /\ exchange' = exch(answer(400, "senderAddress is required", ""))
       /\ effect' = NoEffect
       /\ UNCHANGED <<lucidPromise, lucidError>>
  ELSE IF ~truthy(lovelace) \/ lovelace.t # "string"
  THEN /\ exchange' = exch(answer(400, "lovelace amount is required as string", ""))
       /\ effect' = NoEffect
       /\ UNCHANGED <<lucidPromise, lucidError>>
  ELSE IF ~lovelaceNum.ok
  THEN \* BigInt throws a SyntaxError: the catch
       /\ exchange' = exch(buildTxCatch("Cannot convert to a BigInt"))
       /\ effect' = NoEffect
       /\ UNCHANGED <<lucidPromise, lucidError>>
  ELSE IF lovelaceNum.value <= 0
  THEN /\ exchange' = exch(answer(400, "lovelace must be positive", ""))
       /\ effect' = NoEffect
       /\ UNCHANGED <<lucidPromise, lucidError>>
  ELSE IF lovelaceNum.value < MIN_LOVELACE
  THEN /\ exchange' = exch(answer(400, "Minimum deposit is 1 ADA (1000000 lovelace)", ""))
       /\ effect' = NoEffect
       /\ UNCHANGED <<lucidPromise, lucidError>>
  ELSE IF notConfigured
  THEN /\ exchange' = exch(answer(503, "Server not configured",
                                  "Blockfrost API key not set. See server/.env.example"))
       /\ effect' = NoEffect
       /\ UNCHANGED <<lucidPromise, lucidError>>
  ELSE \E lucidOutcome \in LucidOutcomes :
  LET lucid == getLucid(lucidOutcome) IN
  IF ~lucid.ok
  THEN /\ exchange' = exch(buildTxCatch(lucid.error))
       /\ effect' = [NoEffect EXCEPT !.lucidNew = lucid.new]
       /\ lucidAfter(lucid)
  ELSE IF ~getAddressDetailsOk(senderAddress.v)
  THEN /\ exchange' = exch(answer(400, "Invalid sender address format", ""))
       /\ effect' = [NoEffect EXCEPT !.lucidNew = lucid.new]
       /\ lucidAfter(lucid)
  ELSE IF senderNetworkId(senderAddress.v) # expectedNetworkId
  THEN /\ exchange' = exch(answer(400, "Network mismatch", "Server is on another network"))
       /\ effect' = [NoEffect EXCEPT !.lucidNew = lucid.new]
       /\ lucidAfter(lucid)
  ELSE \E completeOutcome \in Outcomes :
  IF completeOutcome # "ok"
  THEN /\ exchange' = exch(buildTxCatch(completeOutcome))
       /\ effect' = [NoEffect EXCEPT !.lucidNew = lucid.new]
       /\ lucidAfter(lucid)
  ELSE \* payToAddress(HOSKDOG_RECEIVING_ADDRESS, {lovelace}).complete()
       /\ exchange' = exch(answer(200, "", ""))
       /\ effect' = [NoEffect EXCEPT !.lucidNew = lucid.new,
                                     !.built = HOSKDOG_RECEIVING_ADDRESS]
       /\ lucidAfter(lucid)

DepositBuildTx ==
  /\ \E senderAddress \in SenderInputs, lovelace \in LovelaceInputs :
       BuildTx(senderAddress, lovelace)
  /\ UNCHANGED <<envVars, apiLimiter, slurpLimiter>>
  /\ UNCHANGED <<slurpVars, analyzerVars, clientVars, runVars>>

\* app.post('/api/submit')
Submit(signedTxCborHex, senderAddress, amount) ==
  LET exch(r) == depositExchange(<<"api", "submit">>, senderAddress, Undefined,
                                 signedTxCborHex, amount, "submit", r)
      signedTx == fromTx(signedTxCborHex.v)
  IN
  IF ~truthy(signedTxCborHex) \/ signedTxCborHex.t # "string"
  THEN /\ exchange' = exch(answer(400, "signedTxCborHex is required", ""))
       /\ effect' = NoEffect
       /\ UNCHANGED <<lucidPromise, lucidError>>
  ELSE IF notConfigured
  THEN /\ exchange' = exch(answer(503, "Server not configured",
                                  "Blockfrost API key not set. See server/.env.example"))
       /\ effect' = NoEffect
       /\ UNCHANGED <<lucidPromise, lucidError>>
  ELSE \E lucidOutcome \in LucidOutcomes :
  LET lucid == getLucid(lucidOutcome) IN
  IF ~lucid.ok
  THEN /\ exchange' = exch(submitCatch(lucid.error))
       /\ effect' = [NoEffect EXCEPT !.lucidNew = lucid.new]
       /\ lucidAfter(lucid)
  ELSE IF ~signedTx.ok
  THEN /\ exchange' = exch(submitCatch("Deserialization failed"))
       /\ effect' = [NoEffect EXCEPT !.lucidNew = lucid.new]
       /\ lucidAfter(lucid)
  ELSE \E submitOutcome \in Outcomes :
  IF submitOutcome # "ok"
  THEN /\ exchange' = exch(submitCatch(submitOutcome))
       /\ effect' = [NoEffect EXCEPT !.lucidNew = lucid.new]
       /\ lucidAfter(lucid)
  ELSE \* signedTx.submit() forwarded the transaction; the deposit is logged if db is there
       /\ exchange' = exch(answer(200, "", ""))
       /\ effect' = [NoEffect EXCEPT !.lucidNew = lucid.new,
                       !.submitted = signedTx.recipient,
                       !.dbInsert = (dbModules # "none" /\ truthy(senderAddress)
                                       /\ truthy(amount))]
       /\ lucidAfter(lucid)

DepositSubmit ==
  /\ \E signedTxCborHex \in SignedTxInputs,
        senderAddress \in {Undefined, Str(addr1Sender)},
        amount \in {Undefined, Str(<<"2">>)} :
       Submit(signedTxCborHex, senderAddress, amount)
  /\ UNCHANGED <<envVars, apiLimiter, slurpLimiter>>
  /\ UNCHANGED <<slurpVars, analyzerVars, clientVars, runVars>>

(***************************************************************************)
(* The deposit server: the requests no transaction handler answers         *)
(***************************************************************************)
Methods == {"GET", "POST", "OPTIONS"}

\* express.json: a request without a body, with a JSON body, or with a body
\* that does not parse (only a request with a body can fail to parse)
Bodies(method) == IF method = "POST" THEN {"json", "malformed"} ELSE {"none"}

DepositPaths ==
  {<<"api", "health">>, <<"api", "build-tx">>, <<"api", "submit">>, <<"api", "nope">>,
   <<"nope">>, <<>>}

\* the routes registered with app.get / app.post
depositRoute(method, path) ==
  IF method = "GET" /\ path = <<"api", "health">> THEN "health"
  ELSE IF method = "POST" /\ path = <<"api", "build-tx">> THEN "build-tx"
  ELSE IF method = "POST" /\ path = <<"api", "submit">> THEN "submit"
  ELSE ""

depositRequest(method, path, body) ==
  [NoExchange EXCEPT !.server = "deposit", !.ip = "198.51.100.1", !.method = method,
                     !.path = path, !.body = body]

\* cors(corsOptions): an OPTIONS request is answered as a preflight
DepositPreflight(method, path, body) ==
  /\ method = "OPTIONS"
  /\ exchange' = [depositRequest(method, path, body) EXCEPT !.status = 204]

\* express.json() fails: the error handler
DepositBodyError(method, path, body) ==
  /\ method # "OPTIONS"
  /\ body = "malformed"
  /\ exchange' = [depositRequest(method, path, body) EXCEPT
                    !.status = 500, !.error = "Internal server error",
                    !.thrown = "Unexpected token in JSON",
                    !.details = IF nodeEnv = "development"
                                THEN "Unexpected token in JSON" ELSE "",
                    !.fields = IF nodeEnv = "development"
                               THEN {"error", "details"} ELSE {"error"}]

\* db.healthCheck: the query's failure is caught, it never throws
healthCheck(queryOutcome) == IF queryOutcome = "ok" THEN "healthy" ELSE "unhealthy"

\* app.get('/api/health')
DepositHealth(method, path, body, queryOutcome, redisOpen, pingOutcome) ==
  /\ method # "OPTIONS"
  /\ body # "malformed"
  /\ depositRoute(method, path) = "health"
  /\ LET database == IF dbModules = "none" THEN "" ELSE healthCheck(queryOutcome)
         pinged == dbModules = "db+redis" /\ redisOpen
         redis == IF ~pinged THEN ""
                  ELSE IF pingOutcome = "ok" THEN "healthy" ELSE "unhealthy"
     IN
     exchange' = [depositRequest(method, path, body) EXCEPT
                    !.status = 200, !.handler = "health",
                    !.fields = {"status", "service", "network", "timestamp", "configured"}
                                 \cup (IF database = "" THEN {} ELSE {"database"})
                                 \cup (IF redis = "" THEN {} ELSE {"redis"}),
                    !.health = [status |-> IF redis = "unhealthy" THEN "DEGRADED" ELSE "OK",
                                configured |-> ~notConfigured,
                                database |-> database, redis |-> redis]]

\* the 404 handler
DepositNotFound(method, path, body) ==
  /\ method # "OPTIONS"
  /\ body # "malformed"
  /\ depositRoute(method, path) = ""
  /\ exchange' = [depositRequest(method, path, body) EXCEPT
                    !.status = 404, !.error = "Route not found", !.fields = {"error"}]

\* a request to the deposit server that reaches neither build-tx nor submit
DepositOther ==
  /\ \E method \in Methods, path \in DepositPaths :
       \E body \in Bodies(method) :
          \/ DepositPreflight(method, path, body)
          \/ DepositBodyError(method, path, body)
          \/ \E queryOutcome \in {"ok", "fails"}, redisOpen \in BOOLEAN,
                pingOutcome \in {"ok", "fails"} :
               DepositHealth(method, path, body, queryOutcome, redisOpen, pingOutcome)
          \/ DepositNotFound(method, path, body)
  /\ effect' = NoEffect
  /\ UNCHANGED <<envVars, lucidPromise, lucidError, apiLimiter, slurpLimiter>>
  /\ UNCHANGED <<slurpVars, analyzerVars, clientVars, runVars>>

(***************************************************************************)
(* The faucet server: middleware chain and routes                          *)
(***************************************************************************)
\* apiLimiter: 10 requests per 60 seconds
apiPoints == 10
apiDuration == 60
\* slurpLimiter: 3 slurp attempts per 5 minutes
slurpPoints == 3
slurpDuration == 300
\* the rejected requests of one window that the model follows
MaxRejects == 1

FaucetPaths ==
  {<<"api", "health">>, <<"api", "slurp">>, <<"api", "check-eligibility">>,
   <<"api", "stats">>, <<"api", "faucet-status">>, <<"api", "nope">>,
   <<"api", "slurp", "nope">>,
   <<>>, <<"admin.html">>, <<"nope">>}

\* the files of ../public that express.static serves
staticFile(path) == path = <<"admin.html">>

\* the routes of eligibilityRoutes and slurpRoutes under /api, app.get('/api/health')
\* and app.get('/')
faucetRoute(method, path) ==
  IF method = "POST" /\ path = <<"api", "check-eligibility">> THEN "check-eligibility"
  ELSE IF method = "POST" /\ path = <<"api", "slurp">> THEN "slurp"
  ELSE IF method = "GET" /\ path = <<"api", "faucet-status">> THEN "faucet-status"
  ELSE IF method = "GET" /\ path = <<"api", "stats">> THEN "stats"
  ELSE IF method = "GET" /\ path = <<"api", "health">> THEN "health"
  ELSE IF method = "GET" /\ path = <<>> THEN "index"
  ELSE ""

\* the statuses a route handler answers with
handlerStatuses(route) ==
  CASE route = "slurp" -> {200, 400, 429, 500}
    [] route = "check-eligibility" -> {200, 400, 500}
    [] route = "faucet-status" -> {200, 500}
    [] route = "stats" -> {200, 500}
    [] route = "health" -> {200}
    [] route = "index" -> {200}

\* app.use('/api', rateLimiter): the middleware runs for the paths under /api
underApi(path) == Len(path) >= 1 /\ path[1] = "api"
\* req.path.includes('/slurp'), req.path being the path below the mount point
includesSlurp(path) == \E i \in 2..Len(path) : path[i] = "slurp"

\* retryAfterSecs without the "|| 1"
retryAfterRounded(msBeforeNext) == (msBeforeNext + 500) \div 1000

\* Math.round(msBeforeNext / 1000) || 1
retryAfterSecs(msBeforeNext) ==
  LET secs == (msBeforeNext + 500) \div 1000 IN IF secs = 0 THEN 1 ELSE secs

\* the time left in the window when a request is rejected, in ms
MsBeforeNext(duration) == {1, 499, 500, 1500, duration * 1000}

faucetRequest(ip, method, path, body) ==
  [NoExchange EXCEPT !.server = "faucet", !.ip = ip, !.method = method, !.path = path,
                     !.body = body]

\* cors(...): an OPTIONS request is answered as a preflight
FaucetPreflight(ip, method, path, body) ==
  /\ method = "OPTIONS"
  /\ exchange' = [faucetRequest(ip, method, path, body) EXCEPT !.status = 204]
  /\ UNCHANGED <<apiLimiter, slurpLimiter>>

\* express.json fails: the error handling middleware
FaucetBodyError(ip, method, path, body) ==
  /\ method # "OPTIONS"
  /\ body = "malformed"
  /\ exchange' = [faucetRequest(ip, method, path, body) EXCEPT
                    !.status = 500, !.error = "Internal server error",
                    !.thrown = "Unexpected token in JSON",
                    !.details = IF nodeEnv = "development"
                                THEN "Unexpected token in JSON"
                                ELSE "Something went wrong",
                    !.fields = {"error", "message"}]
  /\ UNCHANGED <<apiLimiter, slurpLimiter>>

\* RateLimiterMemory.consume(req.ip) of the limiter the path selects
consume(ip, path) ==
  IF ~underApi(path) THEN UNCHANGED <<apiLimiter, slurpLimiter>>
  ELSE IF includesSlurp(path)
  THEN /\ slurpLimiter[ip] < slurpPoints + MaxRejects
       /\ slurpLimiter' = [slurpLimiter EXCEPT ![ip] = @ + 1]
       /\ UNCHANGED apiLimiter
  ELSE /\ apiLimiter[ip] < apiPoints + MaxRejects
       /\ apiLimiter' = [apiLimiter EXCEPT ![ip] = @ + 1]
       /\ UNCHANGED slurpLimiter

\* rejected, off by one: the request that uses the last point is rejected
rejectedAtLimit(ip, path) ==
  /\ underApi(path)
  /\ IF includesSlurp(path) THEN slurpLimiter'[ip] >= slurpPoints
     ELSE apiLimiter'[ip] >= apiPoints

\* consume rejected: more points consumed than the limiter has
rejected(ip, path) ==
  /\ underApi(path)
  /\ IF includesSlurp(path) THEN slurpLimiter'[ip] > slurpPoints
     ELSE apiLimiter'[ip] > apiPoints

\* the catch of rateLimiter: 429 with Retry-After
FaucetRateLimited(ip, method, path, body, msBeforeNext) ==
  /\ method # "OPTIONS"
  /\ body # "malformed"
  /\ consume(ip, path)
  /\ rejected(ip, path)
  /\ msBeforeNext <= (IF includesSlurp(path) THEN slurpDuration ELSE apiDuration) * 1000
  /\ exchange' = [faucetRequest(ip, method, path, body) EXCEPT
                    !.status = 429, !.error = "Too many requests",
                    !.retryAfter = retryAfterSecs(msBeforeNext),
                    !.fields = {"error", "message", "retryAfter"}]

\* express.static answers a GET for a file of ../public
FaucetStatic(ip, method, path, body) ==
  /\ method = "GET"
  /\ body # "malformed"
  /\ consume(ip, path)
  /\ ~rejected(ip, path)
  /\ staticFile(path)
  /\ exchange' = [faucetRequest(ip, method, path, body) EXCEPT
                    !.status = 200, !.handler = "static"]

\* a route handler answers
FaucetRouted(ip, method, path, body, status) ==
  /\ method # "OPTIONS"
  /\ body # "malformed"
  /\ consume(ip, path)
  /\ ~rejected(ip, path)
  /\ ~(method = "GET" /\ staticFile(path))
  /\ faucetRoute(method, path) # ""
  /\ status \in handlerStatuses(faucetRoute(method, path))
  /\ exchange' = [faucetRequest(ip, method, path, body) EXCEPT
                    !.status = status, !.handler = faucetRoute(method, path),
                    !.fields = IF faucetRoute(method, path) = "health"
                               THEN {"status", "timestamp", "service"}
                               ELSE IF status = 200 THEN {"success"} ELSE {"error"},
                    !.health = IF faucetRoute(method, path) = "health"
                               THEN [NoHealth EXCEPT !.status = "OK"] ELSE NoHealth]

\* the 404 handler
FaucetNotFound(ip, method, path, body) ==
  /\ method # "OPTIONS"
  /\ body # "malformed"
  /\ consume(ip, path)
  /\ ~rejected(ip, path)
  /\ ~(method = "GET" /\ staticFile(path))
  /\ faucetRoute(method, path) = ""
  /\ exchange' = [faucetRequest(ip, method, path, body) EXCEPT
                    !.status = 404, !.error = "Route not found", !.fields = {"error"}]

\* a request to the faucet server
FaucetRequest ==
  /\ \E ip \in IPs, method \in Methods, path \in FaucetPaths :
       \E body \in Bodies(method) :
          \/ FaucetPreflight(ip, method, path, body)
          \/ FaucetBodyError(ip, method, path, body)
          \/ \E msBeforeNext \in MsBeforeNext(slurpDuration) \cup MsBeforeNext(apiDuration) :
               FaucetRateLimited(ip, method, path, body, msBeforeNext)
          \/ FaucetStatic(ip, method, path, body)
          \/ \E status \in {200, 400, 429, 500} :
               FaucetRouted(ip, method, path, body, status)
          \/ FaucetNotFound(ip, method, path, body)
  /\ effect' = NoEffect
  /\ UNCHANGED <<envVars, lucidPromise, lucidError>>
  /\ UNCHANGED <<slurpVars, analyzerVars, clientVars, runVars>>

\* the 60 s window of an IP ends: apiLimiter forgets the key
ApiWindowExpires ==
  /\ \E ip \in IPs :
       /\ apiLimiter[ip] > 0
       /\ apiLimiter' = [apiLimiter EXCEPT ![ip] = 0]
  /\ UNCHANGED <<envVars, lucidPromise, lucidError, slurpLimiter, exchange, effect>>
  /\ UNCHANGED <<slurpVars, analyzerVars, clientVars, runVars>>

\* the 300 s window of an IP ends: slurpLimiter forgets the key
SlurpWindowExpires ==
  /\ \E ip \in IPs :
       /\ slurpLimiter[ip] > 0
       /\ slurpLimiter' = [slurpLimiter EXCEPT ![ip] = 0]
  /\ UNCHANGED <<envVars, lucidPromise, lucidError, apiLimiter, exchange, effect>>
  /\ UNCHANGED <<slurpVars, analyzerVars, clientVars, runVars>>

(***************************************************************************)
(* The two servers' specifications.                                        *)
(***************************************************************************)
HttpInit ==
  /\ blockfrostKey \in {"unset", "placeholder", "set"}
  /\ nodeEnv \in {"development", "production"}
  /\ network \in {"Mainnet", "Preprod"}
  /\ dbModules \in {"none", "db", "db+redis"}
  /\ lucidPromise = "null"
  /\ lucidError = ""
  /\ apiLimiter = [ip \in IPs |-> 0]
  /\ slurpLimiter = [ip \in IPs |-> 0]
  /\ exchange = NoExchange
  /\ effect = NoEffect

SlurpParked == SlurpInit /\ faucetAda = 15 /\ rateLimitingEnabled

\* the deposit server, every route
InitDeposit == HttpInit /\ SlurpParked /\ AnalyzerParked /\ ClientParked /\ RunParked

NextDeposit ==
  \/ DepositBuildTx
  \/ DepositSubmit
  \/ DepositOther

SpecDeposit == InitDeposit /\ [][NextDeposit]_vars

\* the faucet server, and the requests to a configured deposit server that
\* its two transaction handlers do not answer
InitHttp ==
  /\ ClientParked /\ RunParked
  /\ HttpInit
  /\ blockfrostKey = "set"
  /\ network = "Mainnet"
  /\ dbModules = "db+redis"
  /\ SlurpParked
  /\ AnalyzerParked

NextHttp ==
  \/ FaucetRequest
  \/ ApiWindowExpires
  \/ SlurpWindowExpires
  \/ DepositOther

SpecHttp == InitHttp /\ [][NextHttp]_vars

(***************************************************************************)
(* Claims about the HTTP surface, checked under SpecDeposit and SpecHttp.  *)
(***************************************************************************)
\* the body of a build-tx or submit request fails the input validation: a
\* required field is missing, has the wrong type, or does not parse as a
\* positive number of at least 1 ADA
failsValidation(x) ==
  \/ /\ x.path = <<"api", "build-tx">>
     /\ \/ ~truthy(x.senderAddress) \/ x.senderAddress.t # "string"
        \/ ~truthy(x.lovelace) \/ x.lovelace.t # "string"
        \/ ~BigInt(x.lovelace.v).ok
        \/ BigInt(x.lovelace.v).value < MIN_LOVELACE
  \/ /\ x.path = <<"api", "submit">>
     /\ (~truthy(x.signedTxCborHex) \/ x.signedTxCborHex.t # "string")

\* C4: every transaction the deposit server builds (build-tx) or forwards to
\* the network (submit) pays to HOSKDOG_RECEIVING_ADDRESS.
C4_OnlyToReceivingAddress ==
  /\ effect.built \in {"", HOSKDOG_RECEIVING_ADDRESS}
  /\ effect.submitted \in {"", HOSKDOG_RECEIVING_ADDRESS}

\* C5: a request whose body fails input validation is answered 400.
C5_InvalidBodyIs400 ==
  (exchange.server = "deposit" /\ exchange.method = "POST" /\ failsValidation(exchange))
    => exchange.status = 400

\* the request half of an exchange
requestOf(x) ==
  <<x.server, x.ip, x.method, x.path, x.body, x.senderAddress, x.lovelace,
    x.signedTxCborHex, x.amount>>

\* C6: outside development mode, two consecutive identical requests that both
\* fail with status 500, on different internal errors, get identical
\* responses: the response does not carry the exception message.
C6_NoMessageOutsideDevelopment ==
  [][(/\ nodeEnv # "development"
      /\ exchange.status = 500 /\ exchange'.status = 500
      /\ requestOf(exchange) = requestOf(exchange'))
     => (exchange'.error = exchange.error /\ exchange'.details = exchange.details)]_vars

\* the request of an exchange matches a registered route of its server
matchesRoute(x) ==
  IF x.server = "faucet" THEN faucetRoute(x.method, x.path) # ""
  ELSE depositRoute(x.method, x.path) # ""

\* C7: every GET /api/health is answered 200 with a body that has the fields
\* status, service and timestamp.
C7_HealthAlways200 ==
  (exchange.method = "GET" /\ exchange.path = <<"api", "health">>)
    => /\ exchange.status = 200
       /\ {"status", "service", "timestamp"} \subseteq exchange.fields

plainUnmatched(x) ==
  /\ x.server # ""
  /\ x.method \in {"GET", "POST"}
  /\ x.body # "malformed"
  /\ ~matchesRoute(x)
  /\ ~(x.server = "faucet" /\ x.method = "GET" /\ staticFile(x.path))

\* the points the faucet's limiter for this path holds for this IP
consumed(limiterApi, limiterSlurp, x) ==
  IF includesSlurp(x.path) THEN limiterSlurp[x.ip] ELSE limiterApi[x.ip]
pointsOf(x) == IF includesSlurp(x.path) THEN slurpPoints ELSE apiPoints

faucetStep ==
  /\ exchange'.server = "faucet"
  /\ \A ip \in IPs : apiLimiter'[ip] >= apiLimiter[ip] /\ slurpLimiter'[ip] >= slurpLimiter[ip]

\* the limiter's answer: 429 with Retry-After, no route handler
limiterAnswered(x) ==
  /\ x.status = 429 /\ x.error = "Too many requests"
  /\ x.retryAfter >= 1
  /\ x.handler = ""

reachesLimiter(x) == underApi(x.path) /\ x.method # "OPTIONS" /\ x.body # "malformed"

C26_DegradedWhenUnhealthy ==
  (exchange.server = "deposit" /\ exchange.handler = "health")
    => /\ exchange.health.status \in {"OK", "DEGRADED"}
       /\ (exchange.health.database = "unhealthy" \/ exchange.health.redis = "unhealthy")
            => exchange.health.status = "DEGRADED"
       /\ exchange.health.status = "OK"
            => /\ exchange.health.database \in {"", "healthy"}
               /\ exchange.health.redis \in {"", "healthy"}

(***************************************************************************)
(* Claims about POST /api/slurp, checked under Spec.                       *)
(***************************************************************************)
answered200(r) == reqs[r].pc = "done" /\ reqs[r].status = 200

\* check-eligibility: checkMemeTokens found a qualifying HOSKY/SNEK asset
memeEligible(address) == address \in holdsMeme
\* check-eligibility: adaBalance >= config.faucet.deposits.adaOnly
adaEligible(address) ==
  address \in ValidAddresses /\ adaBalance[address] >= depositsAdaOnly

\* C1: with rate limiting enabled, any two POST /api/slurp requests for the
\* same address that were answered 200 lie at least 24 hours apart (at most
\* one successful slurp per address and 24-hour window), under every
\* interleaving of the requests.
C1_OneSlurpPerWalletPerDay ==
  rateLimitingEnabled =>
    \A r1, r2 \in Req :
      (r1 # r2 /\ answered200(r1) /\ answered200(r2)
         /\ reqs[r1].address = reqs[r2].address
         /\ reqs[r1].timestamp <= reqs[r2].timestamp)
      => reqs[r2].timestamp - reqs[r1].timestamp >= OneDay

\* C2: every POST /api/slurp answered 200 has an entry in the slurp history
\* with its address, tier, amount and txHash, in the state of the answer and
\* in every later state.
C2_EverySuccessLogged ==
  \A r \in Req :
    answered200(r) =>
      \E i \in 1..Len(historyFile.data) :
        /\ historyFile.data[i].address = reqs[r].address
        /\ historyFile.data[i].tier = reqs[r].tier
        /\ historyFile.data[i].amount = reqs[r].rewardAmount
        /\ historyFile.data[i].txHash = reqs[r].txHash

\* C3: every transfer the faucet submits pays a tier's reward to a wallet
\* that is eligible for that tier: the meme-holder reward to a holder of a
\* qualifying HOSKY/SNEK token, the ADA-only reward to an address holding
\* the required ADA.
C3_RewardOnlyToEligible ==
  \A i \in 1..Len(transfers) :
    /\ transfers[i].tier = "meme" => memeEligible(transfers[i].address)
    /\ transfers[i].tier = "ada" => adaEligible(transfers[i].address)

\* request r moves to position pc in this step
enters(r, pc) == reqs[r].pc # pc /\ reqs'[r].pc = pc

\* request r is answered with one of the statuses in this step
answeredWith(r, statuses) == reqs[r].status = 0 /\ reqs'[r].status \in statuses

\* the required-field check and the tier check pass
fieldsPass(q) == q.address # "" /\ q.tier \in {"meme", "ada"}

\* request r leaves the 24-hour claim check, which found no recent claim
claimCheckPassed(r) ==
  \/ reqs[r].pc = "checkExists" /\ ~historyFile.exists
  \/ /\ reqs[r].pc = "checkRead"
     /\ ~hasRecentClaim(historyFile.data, reqs[r].address, now)

\* what a step does to request r, but for the way it reaches the validation
slurpOrder(r) ==
  /\ enters(r, "checkExists") => reqs[r].pc = "idle" /\ fieldsPass(reqs'[r])
  /\ enters(r, "checkRead") => reqs[r].pc = "checkExists"
  /\ enters(r, "send") =>
       /\ reqs[r].pc = "validate"
       /\ reqs[r].address \in ValidAddresses
       /\ faucetHkdg >= rewardFor(reqs[r].tier)
       /\ faucetAda >= MinFeeAda
  /\ answeredWith(r, {400, 429}) =>
       /\ reqs[r].pc \in {"idle", "checkRead", "validate"}
       /\ reqs'[r].txHash = 0
       /\ transfers' = transfers
       /\ historyFile' = historyFile
  /\ answeredWith(r, {500}) =>
       /\ reqs[r].pc = "send"
       /\ transfers' = transfers
       /\ historyFile' = historyFile

\* only a request at the transfer sends tokens, only a request answered 200
\* writes the history
slurpEffects ==
  /\ transfers' # transfers => \E r \in Req : reqs[r].pc = "send"
  /\ historyFile' # historyFile =>
       \E r \in Req : reqs[r].pc = "logWrite" /\ reqs'[r].status = 200

MaxConnections == 32
\* the most high-frequency connections of such a graph
MaxHigh == 7
\* the longest tx_list the indexer returns for an address
MaxTxs == 2
\* the most addresses of an ownership request
MaxAddresses == 3

\* graph.connections.filter(c => c.strength >= 5).length
RECURSIVE highFrequencyCount(_)
highFrequencyCount(connections) ==
  IF connections = <<>> THEN 0
  ELSE (IF Head(connections).strength >= 5 THEN 1 ELSE 0)
         + highFrequencyCount(Tail(connections))

min(a, b) == IF a < b THEN a ELSE b

calculateRiskScore(g) ==
  LET volume == IF Len(g.connections) > 30 THEN 20
                ELSE IF Len(g.connections) > 15 THEN 10 ELSE 0
      high == highFrequencyCount(g.connections)
      frequency == IF high > 5 THEN 30 ELSE IF high > 2 THEN 15 ELSE 0
      history == IF g.transactionCount < 5 THEN 10 ELSE 0
  IN min(volume + frequency + history, 100)

\* a graph of n connections of which the first h have the strength high and
\* the others the strength low
graphOf(n, h, high, low, transactionCount) ==
  [source |-> "addr1A",
   connections |-> [i \in 1..n |->
                      [target |-> <<"t", i>>,
                       strength |-> IF i <= h THEN high ELSE low,
                       firstSeen |-> 1, lastSeen |-> 1]],
   transactionCount |-> transactionCount,
   firstSeen |-> 1, lastSeen |-> 1]

RiskInit ==
  /\ \E n \in 0..MaxConnections, high \in {5, 6}, low \in {1, 4},
        transactionCount \in {0, 4, 5, 50} :
       \E h \in 0..min(n, MaxHigh) :
          graph = graphOf(n, h, high, low, transactionCount)
  /\ riskScore = -1
  /\ koiosTxs = <<>>
  /\ addresses = <<>>
  /\ ownership = NoOwnership
  /\ relationships = NoRelationships
  /\ timingAnalyses = <<>>
  /\ timing = NoTiming
  /\ apiExchange = NoApiExchange

\* relationships.riskScore = calculateRiskScore(graph)
ScoreGraph ==
  /\ riskScore = -1
  /\ riskScore' = calculateRiskScore(graph)
  /\ UNCHANGED <<graph, koiosTxs, addresses, ownership, relationships, timingAnalyses, timing, apiExchange>>
  /\ UNCHANGED <<slurpVars, httpVars, clientVars, runVars>>

InitRisk == RiskInit /\ SlurpParked /\ HttpParked /\ ClientParked /\ RunParked

NextRisk == ScoreGraph

SpecRisk == InitRisk /\ [][NextRisk]_vars

(***************************************************************************)
(* Claims about calculateRiskScore, checked under SpecRisk.                *)
(***************************************************************************)
\* the connections of a graph whose strength is at least 5
highFrequencySet(g) ==
  {i \in 1..Len(g.connections) : g.connections[i].strength >= 5}

\* C9: calculateRiskScore returns min(100, a + b + c): a = 20 for more than
\* 30 connections, 10 for more than 15; b = 30 if at least 5 connections are
\* high-frequency (strength >= 5), 15 if 2 up to 5 are; c = 10 if
\* transactionCount < 5.
C9_RiskScoreFormula ==
  riskScore # -1 =>
    LET n == Len(graph.connections)
        high == Cardinality(highFrequencySet(graph))
        a == IF n > 30 THEN 20 ELSE IF n > 15 THEN 10 ELSE 0
        b == IF high >= 5 THEN 30 ELSE IF high >= 2 THEN 15 ELSE 0
        c == IF graph.transactionCount < 5 THEN 10 ELSE 0
    IN riskScore = min(100, a + b + c)

(***************************************************************************)
(* analyzeBeneficialOwnership                                              *)
(***************************************************************************)
AnalysedAddresses == {"addr1A", "addr1B"}
TxHashes == {"h1", "h2"}
\* tx.block_time; 0 stands for a missing block_time
BlockTimes == {0, 1, 2}
\* Date.now() during an analysis: later than every block time
dateNow == 3

Txs == [tx_hash : TxHashes, block_time : BlockTimes]

\* the sequences over S of length at most n
SeqUpTo(S, n) == UNION {[1..k -> S] : k \in 0..n}

\* txs.slice(0, 50)
historyLimit == 50

\* getAddressTransactionHistory: the tx_list of the address, or [] when the
\* request to the indexer fails
getAddressTransactionHistory(address, outcome) ==
  IF outcome = "ok"
  THEN SubSeq(koiosTxs[address], 1, min(Len(koiosTxs[address]), historyLimit))
  ELSE <<>>

\* a lookup that finds the first entry of transactionFrequency for every key
indexOfKeyAny(frequency, key) == IF frequency = <<>> THEN 0 ELSE 1

\* the index of the key in transactionFrequency, 0 if it has no entry
indexOfKey(frequency, key) ==
  IF \E i \in 1..Len(frequency) : frequency[i].txHash = key
  THEN CHOOSE i \in 1..Len(frequency) : frequency[i].txHash = key
  ELSE 0

\* the body of transactions.forEach in buildRelationshipGraph
RECURSIVE trackTransactions(_, _)
trackTransactions(transactions, acc) ==
  IF transactions = <<>> THEN acc
  ELSE
    LET tx == Head(transactions)
        timestamp == IF tx.block_time # 0 THEN tx.block_time ELSE dateNow
        firstSeen == IF acc.firstSeen = 0 \/ timestamp < acc.firstSeen
                     THEN timestamp ELSE acc.firstSeen
        lastSeen == IF acc.lastSeen = 0 \/ timestamp > acc.lastSeen
                    THEN timestamp ELSE acc.lastSeen
        k == indexOfKey(acc.frequency, tx.tx_hash)
        frequency ==
          IF k = 0
          THEN Append(acc.frequency,
                      [txHash |-> tx.tx_hash, count |-> 1, firstSeen |-> timestamp,
                       lastSeen |-> timestamp])
          ELSE [acc.frequency EXCEPT ![k].count = @ + 1, ![k].lastSeen = timestamp]
    IN trackTransactions(Tail(transactions),
                         [firstSeen |-> firstSeen, lastSeen |-> lastSeen,
                          frequency |-> frequency])

buildRelationshipGraph(sourceAddress, transactions) ==
  LET tracked == trackTransactions(transactions,
                                   [firstSeen |-> 0, lastSeen |-> 0, frequency |-> <<>>])
  IN [source |-> sourceAddress,
      connections |-> [i \in 1..Len(tracked.frequency) |->
                         [target |-> tracked.frequency[i].txHash,
                          strength |-> tracked.frequency[i].count,
                          firstSeen |-> tracked.frequency[i].firstSeen,
                          lastSeen |-> tracked.frequency[i].lastSeen]],
      transactionCount |-> Len(transactions),
      firstSeen |-> tracked.firstSeen, lastSeen |-> tracked.lastSeen]

\* the high-frequency filter taking strength 2 as well
frequencyOfFromTwo(strength) ==
  IF strength >= 2 THEN "high-frequency"
  ELSE IF strength = 1 THEN "low-frequency"
  ELSE ""

\* the filters of identifyClusters: strength >= 3, strength === 2, strength === 1
frequencyOf(strength) ==
  IF strength >= 3 THEN "high-frequency"
  ELSE IF strength = 2 THEN "medium-frequency"
  ELSE IF strength = 1 THEN "low-frequency"
  ELSE ""

\* connections.filter(c => frequencyOf(c.strength) = id).map(c => c.target)
RECURSIVE targetsWhere(_, _)
targetsWhere(connections, id) ==
  IF connections = <<>> THEN <<>>
  ELSE (IF frequencyOf(Head(connections).strength) = id
        THEN <<Head(connections).target>> ELSE <<>>)
         \o targetsWhere(Tail(connections), id)

identifyClusters(g) ==
  LET cluster(id, riskLevel) ==
        LET members == targetsWhere(g.connections, id) IN
        IF members = <<>> THEN <<>>
        ELSE <<[id |-> id, addresses |-> members, size |-> Len(members),
                riskLevel |-> riskLevel]>>
  IN cluster("high-frequency", "medium") \o cluster("medium-frequency", "low")
       \o cluster("low-frequency", "low")

analyzeAddressRelationships(address, outcome) ==
  LET g == buildRelationshipGraph(address, getAddressTransactionHistory(address, outcome))
  IN [address |-> address, connections |-> g.connections,
      clusters |-> identifyClusters(g), riskScore |-> calculateRiskScore(g),
      totalConnections |-> Len(g.connections)]

\* the index of the target in addressOccurrences, 0 if it has no entry
indexOfTarget(occurrences, target) ==
  IF \E i \in 1..Len(occurrences) : occurrences[i].address = target
  THEN CHOOSE i \in 1..Len(occurrences) : occurrences[i].address = target
  ELSE 0

\* analysis.connections.forEach of identifyBeneficialOwners
RECURSIVE countConnections(_, _, _)
countConnections(connections, address, acc) ==
  IF connections = <<>> THEN acc
  ELSE
    LET c == Head(connections)
        k == indexOfTarget(acc, c.target)
        entry == IF k = 0
                 THEN [address |-> c.target, occurrences |-> 0, totalStrength |-> 0,
                       connectedAddresses |-> <<>>]
                 ELSE acc[k]
        counted == [entry EXCEPT !.occurrences = @ + 1,
                                 !.totalStrength = @ + c.strength,
                                 !.connectedAddresses = Append(@, address)]
    IN countConnections(Tail(connections), address,
                        IF k = 0 THEN Append(acc, counted)
                        ELSE [acc EXCEPT ![k] = counted])

\* analyses.forEach of identifyBeneficialOwners
RECURSIVE countOccurrences(_, _)
countOccurrences(analyses, acc) ==
  IF analyses = <<>> THEN acc
  ELSE countOccurrences(Tail(analyses),
                        countConnections(Head(analyses).connections,
                                         Head(analyses).address, acc))

\* Math.min((occurrences / analyses.length) * 100, 100), as a fraction
likelihoodOf(occurrences, analysesLength) ==
  IF occurrences * 100 < 100 * analysesLength
  THEN [num |-> occurrences * 100, den |-> analysesLength]
  ELSE [num |-> 100, den |-> 1]

\* b.likelihood - a.likelihood > 0: b goes before a
likelihoodLess(a, b) == a.likelihood.num * b.likelihood.den < b.likelihood.num * a.likelihood.den

\* the owners with at least two occurrences, in the order of addressOccurrences
RECURSIVE ownersOf(_, _)
ownersOf(occurrences, analysesLength) ==
  IF occurrences = <<>> THEN <<>>
  ELSE
    LET data == Head(occurrences) IN
    (IF data.occurrences >= 2
     THEN <<[address |-> data.address,
             likelihood |-> likelihoodOf(data.occurrences, analysesLength),
             strength |-> data.totalStrength,
             connectedAddresses |-> data.connectedAddresses,
             type |-> IF 2 * data.occurrences >= analysesLength
                      THEN "strong" ELSE "moderate"]>>
     ELSE <<>>)
      \o ownersOf(Tail(occurrences), analysesLength)

\* insert the owner after the owners whose likelihood is not lower (a stable sort)
RECURSIVE insertOwner(_, _)
insertOwner(sorted, owner) ==
  IF sorted = <<>> THEN <<owner>>
  ELSE IF likelihoodLess(Head(sorted), owner) THEN <<owner>> \o sorted
  ELSE <<Head(sorted)>> \o insertOwner(Tail(sorted), owner)

\* beneficialOwners.sort((a, b) => b.likelihood - a.likelihood)
RECURSIVE sortByLikelihood(_)
sortByLikelihood(owners) ==
  IF owners = <<>> THEN <<>>
  ELSE insertOwner(sortByLikelihood(SubSeq(owners, 1, Len(owners) - 1)),
                   owners[Len(owners)])

identifyBeneficialOwners(analyses) ==
  sortByLikelihood(ownersOf(countOccurrences(analyses, <<>>), Len(analyses)))

(***************************************************************************)
(* groupByTransactionTiming.  Times are in units of twenty minutes; the    *)
(* averages are fractions [num, den] in lowest terms.                      *)
(***************************************************************************)
\* the most analyses groupByTransactionTiming is called with
MaxAnalyses == 3
\* the most connections of one of these analyses
MaxTimed == 2
\* const timeWindow = 3600000 ms, in units of twenty minutes
timeWindow == 3

\* connection.lastSeen of the analyses; 0 is also what c.lastSeen || 0 gives
\* for a missing lastSeen
LastSeenValues == {0, 2, 3}

RECURSIVE gcd(_, _)
gcd(a, b) == IF b = 0 THEN a ELSE gcd(b, a % b)

abs(a) == IF a < 0 THEN 0 - a ELSE a

\* the fraction n / d, d > 0
rat(n, d) ==
  LET g == gcd(abs(n), d) IN
  IF g = 0 THEN [num |-> 0, den |-> 1] ELSE [num |-> n \div g, den |-> d \div g]

ratAdd(x, y) == rat(x.num * y.den + y.num * x.den, x.den * y.den)
ratSub(x, y) == rat(x.num * y.den - y.num * x.den, x.den * y.den)
ratTimes(x, k) == rat(x.num * k, x.den)
ratOver(x, k) == rat(x.num, x.den * k)
ratAbs(x) == [num |-> abs(x.num), den |-> x.den]
ratLess(x, y) == x.num * y.den < y.num * x.den

\* connections.reduce((sum, c) => sum + (c.lastSeen || 0), 0)
RECURSIVE sumLastSeen(_)
sumLastSeen(connections) ==
  IF connections = <<>> THEN 0
  ELSE Head(connections).lastSeen + sumLastSeen(Tail(connections))

\* avgTime of an analysis that has connections
avgTimeOf(analysis) == rat(sumLastSeen(analysis.connections), Len(analysis.connections))

\* Math.abs(group.avgTime - avgTime) < timeWindow
inWindow(group, avgTime) ==
  ratLess(ratAbs(ratSub(group.avgTime, avgTime)), rat(timeWindow, 1))

\* the first group of the for loop whose average is in the window, 0 if none
firstGroupInWindow(groups, avgTime) ==
  IF \E i \in 1..Len(groups) : inWindow(groups[i], avgTime)
  THEN CHOOSE i \in 1..Len(groups) :
         /\ inWindow(groups[i], avgTime)
         /\ \A j \in 1..(i - 1) : ~inWindow(groups[j], avgTime)
  ELSE 0

\* the group after the address joined it: the earlier version halves the sum
\* of the two averages, the current version weights by the old size
joinGroup(group, address, avgTime, version) ==
  LET oldSize == Len(group.addresses) IN
  [group EXCEPT
     !.addresses = Append(@, address),
     !.avgTime = IF version = "earlier" THEN ratOver(ratAdd(@, avgTime), 2)
                 ELSE ratOver(ratAdd(ratTimes(@, oldSize), avgTime), oldSize + 1)]

\* the body of analyses.forEach
RECURSIVE groupAnalyses(_, _, _)
groupAnalyses(analyses, groups, version) ==
  IF analyses = <<>> THEN groups
  ELSE
    LET analysis == Head(analyses) IN
    IF Len(analysis.connections) = 0
    THEN groupAnalyses(Tail(analyses), groups, version)
    ELSE
      LET avgTime == avgTimeOf(analysis)
          k == firstGroupInWindow(groups, avgTime)
      IN groupAnalyses(
           Tail(analyses),
           IF k = 0
           THEN Append(groups, [addresses |-> <<analysis.address>>, avgTime |-> avgTime,
                                \* confidence: 0.5 in the earlier version, 1.0 in
                                \* the current one
                                confidence |-> IF version = "earlier" THEN rat(1, 2)
                                               ELSE rat(1, 1)])
           ELSE [groups EXCEPT ![k] = joinGroup(@, analysis.address, avgTime, version)],
           version)

\* groups.filter(g => g.addresses.length >= 2)
RECURSIVE atLeastTwo(_)
atLeastTwo(groups) ==
  IF groups = <<>> THEN <<>>
  ELSE (IF Len(Head(groups).addresses) >= 2 THEN <<Head(groups)>> ELSE <<>>)
         \o atLeastTwo(Tail(groups))

\* the earlier version of groupByTransactionTiming
groupByTransactionTimingEarlier(analyses) ==
  [called |-> TRUE, version |-> "earlier", ok |-> TRUE, thrown |-> "",
   groups |-> atLeastTwo(groupAnalyses(analyses, <<>>, "earlier"))]

\* the current version: after the forEach, groups = groups.map(...) assigns to
\* the const groups, which throws a TypeError
groupByTransactionTiming(analyses) ==
  [called |-> TRUE, version |-> "current", ok |-> FALSE,
   thrown |-> "Assignment to constant variable.", groups |-> <<>>]

\* identifyControlPatterns: the hub patterns, then the synchronized groups
RECURSIVE hubPatterns(_)
hubPatterns(analyses) ==
  IF analyses = <<>> THEN <<>>
  ELSE (IF Len(Head(analyses).connections) > 10
        THEN <<[type |-> "hub", address |-> Head(analyses).address,
                connectionCount |-> Len(Head(analyses).connections)]>>
        ELSE <<>>)
         \o hubPatterns(Tail(analyses))

identifyControlPatterns(analyses) ==
  LET timingGroups == groupByTransactionTiming(analyses) IN
  IF ~timingGroups.ok
  THEN [ok |-> FALSE, thrown |-> timingGroups.thrown, patterns |-> <<>>]
  ELSE [ok |-> TRUE, thrown |-> "",
        patterns |-> hubPatterns(analyses)
                       \o [g \in 1..Len(timingGroups.groups) |->
                             [type |-> "synchronized",
                              addresses |-> timingGroups.groups[g].addresses]]]

\* the unique connection targets of the analyses
allTargets(analyses) ==
  UNION {{analyses[i].connections[j].target : j \in 1..Len(analyses[i].connections)} :
           i \in 1..Len(analyses)}

RECURSIVE sumConnections(_)
sumConnections(analyses) ==
  IF analyses = <<>> THEN 0
  ELSE Len(Head(analyses).connections) + sumConnections(Tail(analyses))

maxConnections(analyses) ==
  CHOOSE m \in {Len(analyses[i].connections) : i \in 1..Len(analyses)} :
    \A i \in 1..Len(analyses) : Len(analyses[i].connections) <= m

\* insert before the first entry with fewer connections (a stable sort)
RECURSIVE insertByConnections(_, _)
insertByConnections(sorted, entry) ==
  IF sorted = <<>> THEN <<entry>>
  ELSE IF Head(sorted).connections < entry.connections THEN <<entry>> \o sorted
  ELSE <<Head(sorted)>> \o insertByConnections(Tail(sorted), entry)

RECURSIVE sortByConnections(_)
sortByConnections(entries) ==
  IF entries = <<>> THEN <<>>
  ELSE insertByConnections(sortByConnections(SubSeq(entries, 1, Len(entries) - 1)),
                           entries[Len(entries)])

NoMetrics ==
  [concentration |-> [num |-> 0, den |-> 1], diversity |-> [num |-> 0, den |-> 1],
   centralizedAddresses |-> <<>>]

calculateDistributionMetrics(analyses) ==
  IF Len(analyses) = 0 THEN NoMetrics
  ELSE
    LET totalConnections == sumConnections(analyses)
        sorted == sortByConnections([i \in 1..Len(analyses) |->
                                       [address |-> analyses[i].address,
                                        connections |-> Len(analyses[i].connections)]])
        \* Math.max(1, Math.ceil(sorted.length * 0.2))
        top20Percent == IF (Len(sorted) + 4) \div 5 < 1 THEN 1 ELSE (Len(sorted) + 4) \div 5
    IN [concentration |-> IF totalConnections > 0
                          THEN rat(maxConnections(analyses) * 100, totalConnections)
                          ELSE [num |-> 0, den |-> 1],
        diversity |-> rat(Cardinality(allTargets(analyses)) * 10, Len(analyses)),
        centralizedAddresses |-> SubSeq(sorted, 1, top20Percent)]

\* analyzeBeneficialOwnership: ok = FALSE when it rethrows what a step threw
analyzeBeneficialOwnership(addrs, outcome) ==
  LET analyses == [i \in 1..Len(addrs) |-> analyzeAddressRelationships(addrs[i], outcome)]
      beneficialOwners == identifyBeneficialOwners(analyses)
      control == identifyControlPatterns(analyses)
  IN IF ~control.ok
     THEN [done |-> TRUE, ok |-> FALSE, thrown |-> control.thrown, analyses |-> analyses,
           beneficialOwners |-> beneficialOwners, controlPatterns |-> <<>>,
           distributionMetrics |-> NoMetrics]
     ELSE [done |-> TRUE, ok |-> TRUE, thrown |-> "", analyses |-> analyses,
           beneficialOwners |-> beneficialOwners, controlPatterns |-> control.patterns,
           distributionMetrics |-> calculateDistributionMetrics(analyses)]

OwnershipInit ==
  /\ koiosTxs \in [AnalysedAddresses -> SeqUpTo(Txs, MaxTxs)]
  /\ addresses \in SeqUpTo(AnalysedAddresses, MaxAddresses) \ {<<>>}
  /\ ownership = NoOwnership
  /\ graph = NoGraph
  /\ riskScore = -1
  /\ relationships = NoRelationships
  /\ timingAnalyses = <<>>
  /\ timing = NoTiming
  /\ apiExchange = NoApiExchange

\* analyzeBeneficialOwnership(addresses)
AnalyzeOwnership ==
  /\ ~ownership.done
  /\ \E outcome \in {"ok", "error"} :
       ownership' = analyzeBeneficialOwnership(addresses, outcome)
  /\ UNCHANGED <<graph, riskScore, koiosTxs, addresses, relationships, timingAnalyses, timing, apiExchange>>
  /\ UNCHANGED <<slurpVars, httpVars, clientVars, runVars>>

InitOwnership == OwnershipInit /\ SlurpParked /\ HttpParked /\ ClientParked /\ RunParked

NextOwnership == AnalyzeOwnership

SpecOwnership == InitOwnership /\ [][NextOwnership]_vars

(***************************************************************************)
(* Claims about identifyBeneficialOwners, checked under SpecOwnership.     *)
(***************************************************************************)
\* the analyses that have the target among their connections
analysesWith(target) ==
  {i \in 1..Len(ownership.analyses) :
     \E j \in 1..Len(ownership.analyses[i].connections) :
        ownership.analyses[i].connections[j].target = target}

\* the distinct analysed addresses that have the target among their connections
addressesWith(target) == {ownership.analyses[i].address : i \in analysesWith(target)}

\* C10: a target is reported as a beneficial owner exactly when it is a
\* connection target of at least 2 distinct analysed addresses; its likelihood
\* is occurrences / analyses x 100 within 0..100, its type 'strong' when it is
\* in at least half of the analyses and 'moderate' otherwise, and the owners
\* are ordered by likelihood descending.
C10_BeneficialOwners ==
  ownership.done =>
    LET owners == ownership.beneficialOwners
        n == Len(ownership.analyses)
    IN /\ \A target \in TxHashes :
            (\E i \in 1..Len(owners) : owners[i].address = target)
              <=> Cardinality(addressesWith(target)) >= 2
       /\ \A i \in 1..Len(owners) :
            LET occurrences == Cardinality(analysesWith(owners[i].address)) IN
            /\ owners[i].likelihood.num * n = occurrences * 100 * owners[i].likelihood.den
            /\ owners[i].likelihood.num >= 0
            /\ owners[i].likelihood.num <= 100 * owners[i].likelihood.den
            /\ owners[i].type = IF 2 * occurrences >= n THEN "strong" ELSE "moderate"
       /\ \A i \in 1..Len(owners) - 1 : ~likelihoodLess(owners[i], owners[i + 1])

(***************************************************************************)
(* groupByTransactionTiming on its own                                     *)
(***************************************************************************)
TimedAddress(i) == <<"addr1A", "addr1B", "addr1C", "addr1D">>[i]

TimedConnections ==
  {[i \in 1..Len(seen) |-> [target |-> <<"t", i>>, strength |-> 1, lastSeen |-> seen[i]]] :
     seen \in SeqUpTo(LastSeenValues, MaxTimed)}

TimingInit ==
  /\ \E n \in 1..MaxAnalyses :
       \E connections \in [1..n -> TimedConnections] :
          timingAnalyses = [i \in 1..n |->
                              [address |-> TimedAddress(i), connections |-> connections[i]]]
  /\ timing = NoTiming
  /\ apiExchange = NoApiExchange
  /\ graph = NoGraph
  /\ riskScore = -1
  /\ koiosTxs = <<>>
  /\ addresses = <<>>
  /\ ownership = NoOwnership
  /\ relationships = NoRelationships

\* const timingGroups = groupByTransactionTiming(analyses)
GroupTiming ==
  /\ ~timing.called
  /\ \/ timing' = groupByTransactionTimingEarlier(timingAnalyses)
     \/ timing' = groupByTransactionTiming(timingAnalyses)
  /\ UNCHANGED <<graph, riskScore, koiosTxs, addresses, ownership, relationships, apiExchange,
                  timingAnalyses>>
  /\ UNCHANGED <<slurpVars, httpVars, clientVars, runVars>>

InitTiming == TimingInit /\ SlurpParked /\ HttpParked /\ ClientParked /\ RunParked

NextTiming == GroupTiming

SpecTiming == InitTiming /\ [][NextTiming]_vars

(***************************************************************************)
(* Claims about groupByTransactionTiming, checked under SpecTiming.        *)
(***************************************************************************)
\* the average last-seen time of the analysed address
avgTimeOfAddress(address) ==
  avgTimeOf(timingAnalyses[CHOOSE i \in 1..Len(timingAnalyses) :
                             timingAnalyses[i].address = address])

\* C11: every group that groupByTransactionTiming returns has at least 2
\* members, and the average last-seen times of any two of its members are
\* less than the one-hour window apart.
C11_GroupsWithinWindow ==
  \A g \in 1..Len(timing.groups) :
    LET members == timing.groups[g].addresses IN
    /\ Len(members) >= 2
    /\ \A i, j \in 1..Len(members) :
         ratLess(ratAbs(ratSub(avgTimeOfAddress(members[i]), avgTimeOfAddress(members[j]))),
                 rat(timeWindow, 1))

(***************************************************************************)
(* analyzeAddressRelationships of one address                              *)
(***************************************************************************)
\* the longest tx_list of the analysed address
MaxHistory == 4

AnalysisInit ==
  /\ addresses = <<"addr1A">>
  /\ koiosTxs \in [{"addr1A"} -> SeqUpTo(Txs, MaxHistory)]
  /\ relationships = NoRelationships
  /\ graph = NoGraph
  /\ riskScore = -1
  /\ ownership = NoOwnership
  /\ timingAnalyses = <<>>
  /\ timing = NoTiming
  /\ apiExchange = NoApiExchange

\* analyzeAddressRelationships(address): the graph it builds, the risk score
\* and the relationships it returns
AnalyzeAddress ==
  /\ ~relationships.done
  /\ \E outcome \in {"ok", "error"} :
       /\ graph' = buildRelationshipGraph(addresses[1],
                                          getAddressTransactionHistory(addresses[1], outcome))
       /\ relationships' = [done |-> TRUE,
                            analysis |-> analyzeAddressRelationships(addresses[1], outcome)]
  /\ riskScore' = calculateRiskScore(graph')
  /\ UNCHANGED <<koiosTxs, addresses, ownership, timingAnalyses, timing, apiExchange>>
  /\ UNCHANGED <<slurpVars, httpVars, clientVars, runVars>>

InitAnalysis == AnalysisInit /\ SlurpParked /\ HttpParked /\ ClientParked /\ RunParked

NextAnalysis == AnalyzeAddress

SpecAnalysis == InitAnalysis /\ [][NextAnalysis]_vars

\* the sum of the members' average last-seen times
RECURSIVE sumOfAverages(_)
sumOfAverages(members) ==
  IF members = <<>> THEN rat(0, 1)
  ELSE ratAdd(avgTimeOfAddress(Head(members)), sumOfAverages(Tail(members)))

\* the sum of the squared distances of the members' averages from the mean
RECURSIVE sumOfSquares(_, _)
sumOfSquares(members, mean) ==
  IF members = <<>> THEN rat(0, 1)
  ELSE LET distance == ratSub(avgTimeOfAddress(Head(members)), mean) IN
       ratAdd(rat(distance.num * distance.num, distance.den * distance.den),
              sumOfSquares(Tail(members), mean))

\* sigma squared: the variance of the members' average last-seen times
varianceOf(members) ==
  ratOver(sumOfSquares(members, ratOver(sumOfAverages(members), Len(members))),
          Len(members))

\* the square of 1 - confidence, times the square of the window
squaredDeviationOf(confidence) ==
  LET rest == ratSub(rat(1, 1), confidence) IN
  rat(rest.num * rest.num * timeWindow * timeWindow, rest.den * rest.den)

\* C23: groupByTransactionTiming returns its groups, and the confidence of
\* every group is 1 - min(sigma / window, 1), sigma the standard deviation of
\* the members' average last-seen times: it lies in [0, 1], its distance from
\* 1 squared is sigma squared over the window squared (or 1 when sigma
\* exceeds the window), and it is 1 when all members have the same average.
C23_ConfidenceFromDeviation ==
  timing.called =>
    /\ timing.ok
    /\ \A g \in 1..Len(timing.groups) :
         LET members == timing.groups[g].addresses
             confidence == timing.groups[g].confidence
             variance == varianceOf(members)
         IN /\ confidence.num >= 0
            /\ confidence.num <= confidence.den
            /\ IF ratLess(rat(timeWindow * timeWindow, 1), variance)
               THEN confidence.num = 0
               ELSE squaredDeviationOf(confidence) = variance
            /\ (\A i, j \in 1..Len(members) :
                  avgTimeOfAddress(members[i]) = avgTimeOfAddress(members[j]))
                 => confidence = rat(1, 1)

(***************************************************************************)
(* Claims about analyzeAddressRelationships, checked under SpecAnalysis.   *)
(***************************************************************************)
\* the clusters that list the target among their addresses
clustersListing(clusters, target) ==
  {k \in 1..Len(clusters) :
     \E m \in 1..Len(clusters[k].addresses) : clusters[k].addresses[m] = target}

\* how often the cluster lists the target
timesListed(cluster, target) ==
  Cardinality({m \in 1..Len(cluster.addresses) : cluster.addresses[m] = target})

RECURSIVE sumSizes(_)
sumSizes(clusters) ==
  IF clusters = <<>> THEN 0 ELSE Head(clusters).size + sumSizes(Tail(clusters))

\* C12: identifyClusters partitions the connections by strength: every
\* connection is listed once, in one cluster, 'low-frequency' for strength 1,
\* 'medium-frequency' for strength 2, 'high-frequency' for strength >= 3;
\* each cluster's size is the number of its addresses, the sizes add up to
\* the number of connections, no cluster is empty, and the risk level is
\* medium for high-frequency and low for the other two.
C12_ClustersPartition ==
  relationships.done =>
    LET connections == relationships.analysis.connections
        clusters == relationships.analysis.clusters
    IN /\ \A j \in 1..Len(connections) :
            \E k \in 1..Len(clusters) :
               /\ clustersListing(clusters, connections[j].target) = {k}
               /\ timesListed(clusters[k], connections[j].target) = 1
               /\ clusters[k].id = IF connections[j].strength = 1 THEN "low-frequency"
                                   ELSE IF connections[j].strength = 2
                                   THEN "medium-frequency" ELSE "high-frequency"
       /\ \A k \in 1..Len(clusters) :
            /\ clusters[k].size = Len(clusters[k].addresses)
            /\ clusters[k].size > 0
            /\ clusters[k].riskLevel =
                 IF clusters[k].id = "high-frequency" THEN "medium" ELSE "low"
            /\ \A m \in 1..Len(clusters) : clusters[m].id = clusters[k].id => m = k
       /\ sumSizes(clusters) = Len(connections)

\* an analysis with a high-frequency and a low-frequency cluster
C12_Witness ==
  /\ relationships.done
  /\ \E k, m \in 1..Len(relationships.analysis.clusters) :
       /\ relationships.analysis.clusters[k].id = "high-frequency"
       /\ relationships.analysis.clusters[m].id = "low-frequency"

\* the transaction list buildRelationshipGraph was called with: the
\* indexer's tx_list, or [] when the request to the indexer failed
graphTransactions ==
  IF graph.transactionCount = 0 THEN <<>> ELSE koiosTxs[addresses[1]]

\* tx.block_time || Date.now()
timestampOf(tx) == IF tx.block_time # 0 THEN tx.block_time ELSE dateNow

\* the timestamps of the transactions counted in the connection's strength
timestampsOf(target) ==
  {timestampOf(graphTransactions[i]) :
     i \in {j \in 1..Len(graphTransactions) : graphTransactions[j].tx_hash = target}}

\* C24: for every connection of the graph, firstSeen is the earliest and
\* lastSeen the most recent timestamp among the transactions counted in its
\* strength, so firstSeen <= lastSeen for every connection and for the graph,
\* whatever the order of the transaction list.
C24_FirstSeenBeforeLastSeen ==
  relationships.done =>
    /\ \A j \in 1..Len(graph.connections) :
         LET c == graph.connections[j] IN
         /\ c.firstSeen \in timestampsOf(c.target)
         /\ c.lastSeen \in timestampsOf(c.target)
         /\ \A t \in timestampsOf(c.target) : c.firstSeen <= t /\ t <= c.lastSeen
         /\ c.firstSeen <= c.lastSeen
    /\ graph.firstSeen <= graph.lastSeen

RECURSIVE sumStrengths(_)
sumStrengths(connections) ==
  IF connections = <<>> THEN 0
  ELSE Head(connections).strength + sumStrengths(Tail(connections))

\* C25: every transaction of the list is counted in exactly one connection,
\* the one of its hash: a connection's strength is the number of transactions
\* with its target as hash, no two connections have the same target, and the
\* strengths add up to transactionCount; when the hashes of the list are
\* pairwise distinct every connection has strength 1 and no cluster but the
\* low-frequency one is produced.
C25_EveryTransactionCountedOnce ==
  relationships.done =>
    LET connections == graph.connections
        txs == graphTransactions
        clusters == relationships.analysis.clusters
    IN /\ graph.transactionCount = Len(txs)
       /\ sumStrengths(connections) = graph.transactionCount
       /\ \A i \in 1..Len(txs) :
            \E j \in 1..Len(connections) : connections[j].target = txs[i].tx_hash
       /\ \A j \in 1..Len(connections) :
            /\ connections[j].strength =
                 Cardinality({i \in 1..Len(txs) : txs[i].tx_hash = connections[j].target})
            /\ \A k \in 1..Len(connections) :
                 connections[k].target = connections[j].target => k = j
       /\ (\A i, k \in 1..Len(txs) : txs[i].tx_hash = txs[k].tx_hash => i = k)
            => /\ Len(connections) = Len(txs)
               /\ \A j \in 1..Len(connections) : connections[j].strength = 1
               /\ \A k \in 1..Len(clusters) : clusters[k].id = "low-frequency"
               /\ Len(clusters) = IF txs = <<>> THEN 0 ELSE 1

\* a list of two transactions with distinct hashes was analysed
C25_Witness ==
  /\ relationships.done
  /\ Len(graphTransactions) = 2
  /\ graphTransactions[1].tx_hash # graphTransactions[2].tx_hash
  /\ Len(graph.connections) = 2
  /\ Len(relationships.analysis.clusters) = 1

(***************************************************************************)
(* The analysis endpoints: POST /api/relationships/analyze,                *)
(* /api/relationships/graph, /api/ownership/beneficial and                 *)
(* /api/ownership/distribution.  Addresses are JavaScript strings (their   *)
(* characters), the body's 'addresses' is any JSON value.                  *)
(***************************************************************************)
\* the longest 'addresses' array with mixed elements
MaxBody == 2
\* const maxAddresses = 20 of /ownership/beneficial
maxAddresses == 20
\* addresses.length > 50 of /ownership/distribution
maxDistribution == 50

Array(v) == [t |-> "array", v |-> v]

ApiAddr1 == <<"a", "d", "d", "r", "1", "q">>
ApiStake1 == <<"s", "t", "a", "k", "e", "1", "u">>
ApiBogus == <<"b", "o", "g", "u", "s">>

\* the strings the indexer can be asked about
ApiAddresses == {ApiAddr1, ApiStake1, ApiBogus}

ApiAddressInputs ==
  {Undefined, Str(<<>>), Num(<<"7">>), Str(ApiAddr1), Str(ApiStake1), Str(ApiBogus)}

AddressesInputs ==
  {Undefined, Str(ApiAddr1)}
    \cup {Array(v) : v \in SeqUpTo({Str(ApiAddr1), Str(ApiBogus), Num(<<"7">>)}, MaxBody)}
    \cup {Array([i \in 1..n |-> Str(ApiAddr1)]) :
            n \in {maxAddresses, maxAddresses + 1, maxDistribution, maxDistribution + 1}}

\* !address.startsWith('addr1') && !address.startsWith('stake1')
invalidFormat(s) ==
  /\ ~startsWith(s, <<"a", "d", "d", "r", "1">>)
  /\ ~startsWith(s, <<"s", "t", "a", "k", "e", "1">>)

\* details: process.env.NODE_ENV === 'development' ? error.message : undefined
devDetails(message) == IF nodeEnv = "development" THEN message ELSE ""

apiResponse(status, error, details) ==
  [status |-> status, success |-> FALSE, error |-> error, details |-> details,
   fields |-> {}, indexerCalls |-> 0, totalConnections |-> 0]

\* the indexer is asked about a value that is no string: it answers with an
\* error, which getAddressTransactionHistory turns into []
analysisOf(address, outcome) ==
  IF address.t = "string" /\ address.v \in DOMAIN koiosTxs
  THEN analyzeAddressRelationships(address.v, outcome)
  ELSE analyzeAddressRelationships(address.v, "error")

\* POST /relationships/analyze
relationshipsAnalyze(address, outcome) ==
  IF ~truthy(address)
  THEN apiResponse(400, "Wallet address is required", "")
  ELSE IF address.t # "string"
  THEN apiResponse(500, "Failed to analyze relationships",
                   devDetails("address.startsWith is not a function"))
  ELSE IF invalidFormat(address.v)
  THEN apiResponse(400, "Invalid Cardano address format",
                   "Address must start with addr1 or stake1")
  ELSE [status |-> 200, success |-> TRUE, error |-> "", details |-> "",
        fields |-> {"address", "depth", "connections", "clusters", "riskScore", "metadata"},
        indexerCalls |-> 1,
        totalConnections |-> analysisOf(address, outcome).totalConnections]

\* generateNetworkGraph: one node for the address and one per connection, one
\* edge per connection; relationships.address.substring throws unless the
\* address is a string
generateNetworkGraph(rel, address) ==
  IF address.t # "string"
  THEN [ok |-> FALSE, thrown |-> "relationships.address.substring is not a function",
        nodes |-> <<>>, edges |-> <<>>, clusters |-> <<>>]
  ELSE [ok |-> TRUE, thrown |-> "",
        nodes |-> <<[id |-> rel.address, type |-> "primary", n |-> Len(rel.connections)]>>
                    \o [i \in 1..Len(rel.connections) |->
                          [id |-> rel.connections[i].target, type |-> "connected",
                           n |-> rel.connections[i].strength]],
        edges |-> [i \in 1..Len(rel.connections) |->
                     [source |-> rel.address, target |-> rel.connections[i].target,
                      weight |-> rel.connections[i].strength]],
        clusters |-> rel.clusters]

\* POST /relationships/graph
relationshipsGraph(address, outcome) ==
  IF ~truthy(address)
  THEN apiResponse(400, "Wallet address is required", "")
  ELSE
    LET rel == analysisOf(address, outcome)
        g == generateNetworkGraph(rel, address)
    IN IF ~g.ok
       THEN [apiResponse(500, "Failed to generate network graph", devDetails(g.thrown))
               EXCEPT !.indexerCalls = 1]
       ELSE [status |-> 200, success |-> TRUE, error |-> "", details |-> "",
             fields |-> {"nodes", "edges", "clusters"}, indexerCalls |-> 1,
             totalConnections |-> Len(g.edges)]

\* analyzeBeneficialOwnership of the body's array: one analysis per element
ownershipOf(arr, outcome) ==
  LET analyses == [i \in 1..Len(arr.v) |-> analysisOf(arr.v[i], outcome)]
      beneficialOwners == identifyBeneficialOwners(analyses)
      control == identifyControlPatterns(analyses)
  IN IF ~control.ok
     THEN [ok |-> FALSE, thrown |-> control.thrown, totalConnections |-> 0]
     ELSE [ok |-> TRUE, thrown |-> "", totalConnections |-> sumConnections(analyses)]

\* !addresses || !Array.isArray(addresses) || addresses.length === 0
noArray(arr) == arr.t # "array" \/ Len(arr.v) = 0

\* POST /ownership/beneficial
ownershipBeneficial(arr, outcome) ==
  IF noArray(arr)
  THEN apiResponse(400, "Array of wallet addresses is required", "")
  ELSE IF Len(arr.v) > maxAddresses
  THEN apiResponse(400, "Too many addresses", "")
  ELSE IF \E i \in 1..Len(arr.v) :
            /\ arr.v[i].t # "string"
            /\ \A j \in 1..(i - 1) : arr.v[j].t = "string"
  THEN apiResponse(500, "Failed to analyze beneficial ownership",
                   devDetails("addr.startsWith is not a function"))
  ELSE IF \E i \in 1..Len(arr.v) : invalidFormat(arr.v[i].v)
  THEN apiResponse(400, "Invalid address format detected", "")
  ELSE
    LET o == ownershipOf(arr, outcome) IN
    IF ~o.ok
    THEN [apiResponse(500, "Failed to analyze beneficial ownership", devDetails(o.thrown))
            EXCEPT !.indexerCalls = Len(arr.v)]
    ELSE [status |-> 200, success |-> TRUE, error |-> "", details |-> "",
          fields |-> {"addresses", "beneficialOwners", "controlPatterns",
                      "distributionMetrics", "metadata"},
          indexerCalls |-> Len(arr.v), totalConnections |-> o.totalConnections]

\* POST /ownership/distribution
ownershipDistribution(arr, outcome) ==
  IF noArray(arr)
  THEN apiResponse(400, "Array of wallet addresses is required", "")
  ELSE IF Len(arr.v) > maxDistribution
  THEN apiResponse(400, "Too many addresses", "")
  ELSE
    LET o == ownershipOf(arr, outcome) IN
    IF ~o.ok
    THEN [apiResponse(500, "Failed to analyze distribution", devDetails(o.thrown))
            EXCEPT !.indexerCalls = Len(arr.v)]
    ELSE [status |-> 200, success |-> TRUE, error |-> "", details |-> "",
          fields |-> {"addressCount", "distributionMetrics", "beneficialOwnerCount",
                      "controlPatternCount", "summary"},
          indexerCalls |-> Len(arr.v), totalConnections |-> o.totalConnections]

apiAnswer(route, address, arr, outcome, response) ==
  [route |-> route, address |-> address, addresses |-> arr, indexer |-> outcome,
   status |-> response.status, success |-> response.success, error |-> response.error,
   details |-> response.details, fields |-> response.fields,
   indexerCalls |-> response.indexerCalls,
   totalConnections |-> response.totalConnections]

ApiUnchanged ==
  /\ UNCHANGED <<graph, riskScore, koiosTxs, addresses, ownership, relationships,
                 timingAnalyses, timing>>
  /\ UNCHANGED <<slurpVars, httpVars, clientVars, runVars>>

PostRelationshipsAnalyze ==
  /\ \E address \in ApiAddressInputs, outcome \in {"ok", "error"} :
       apiExchange' = apiAnswer("/relationships/analyze", address, Undefined, outcome,
                                relationshipsAnalyze(address, outcome))
  /\ ApiUnchanged

PostRelationshipsGraph ==
  /\ \E address \in ApiAddressInputs, outcome \in {"ok", "error"} :
       apiExchange' = apiAnswer("/relationships/graph", address, Undefined, outcome,
                                relationshipsGraph(address, outcome))
  /\ ApiUnchanged

PostOwnershipBeneficial ==
  /\ \E arr \in AddressesInputs, outcome \in {"ok", "error"} :
       apiExchange' = apiAnswer("/ownership/beneficial", Undefined, arr, outcome,
                                ownershipBeneficial(arr, outcome))
  /\ ApiUnchanged

PostOwnershipDistribution ==
  /\ \E arr \in AddressesInputs, outcome \in {"ok", "error"} :
       apiExchange' = apiAnswer("/ownership/distribution", Undefined, arr, outcome,
                                ownershipDistribution(arr, outcome))
  /\ ApiUnchanged

\* the transactions the indexer lists in these requests
ApiTxs == {tx \in Txs : tx.tx_hash = "h1"}

\* the indexer's answers: at most one transaction per address
ApiInit ==
  /\ koiosTxs \in [ApiAddresses -> SeqUpTo(ApiTxs, 1)]
  /\ apiExchange = NoApiExchange
  /\ graph = NoGraph
  /\ riskScore = -1
  /\ addresses = <<>>
  /\ ownership = NoOwnership
  /\ relationships = NoRelationships
  /\ timingAnalyses = <<>>
  /\ timing = NoTiming

InitApi ==
  /\ ClientParked /\ RunParked
  /\ ApiInit
  /\ SlurpParked
  /\ blockfrostKey = "set"
  /\ nodeEnv \in {"production", "development"}
  /\ network = "Mainnet"
  /\ dbModules = "none"
  /\ lucidPromise = "null"
  /\ lucidError = ""
  /\ apiLimiter = [ip \in IPs |-> 0]
  /\ slurpLimiter = [ip \in IPs |-> 0]
  /\ exchange = NoExchange
  /\ effect = NoEffect

NextApi ==
  \/ PostRelationshipsAnalyze
  \/ PostRelationshipsGraph
  \/ PostOwnershipBeneficial
  \/ PostOwnershipDistribution

SpecApi == InitApi /\ [][NextApi]_vars

(***************************************************************************)
(* Claims about the analysis endpoints, checked under SpecApi.             *)
(***************************************************************************)
\* a non-empty array of at most 20 strings that start with addr1 or stake1
validAddresses(arr) ==
  /\ arr.t = "array"
  /\ Len(arr.v) \in 1..maxAddresses
  /\ \A i \in 1..Len(arr.v) : arr.v[i].t = "string" /\ ~invalidFormat(arr.v[i].v)

\* C13: POST /api/ownership/beneficial with a non-empty array of at most 20
\* addresses that all start with addr1 or stake1 is answered 200 with
\* success: true and data holding beneficialOwners, controlPatterns and
\* distributionMetrics, whatever the indexer answers.
C13_BeneficialAnswers200 ==
  (apiExchange.route = "/ownership/beneficial" /\ validAddresses(apiExchange.addresses))
    => /\ apiExchange.status = 200
       /\ apiExchange.success
       /\ {"beneficialOwners", "controlPatterns", "distributionMetrics"}
            \subseteq apiExchange.fields

\* the address of an analysis or graph request starts with addr1 or stake1
validAddress(address) == address.t = "string" /\ ~invalidFormat(address.v)

\* C14: when the indexer is unavailable the relationship and ownership
\* endpoints answer 500 to a request they would analyse, never 200 with an
\* analysis computed from no data.
C14_IndexerDownIs500 ==
  /\ (/\ apiExchange.route \in {"/relationships/analyze", "/relationships/graph"}
      /\ validAddress(apiExchange.address)
      /\ apiExchange.indexer = "error")
       => apiExchange.status = 500
  /\ (/\ apiExchange.route = "/ownership/beneficial"
      /\ validAddresses(apiExchange.addresses)
      /\ apiExchange.indexer = "error")
       => apiExchange.status = 500
  /\ (/\ apiExchange.route = "/ownership/distribution"
      /\ apiExchange.addresses.t = "array"
      /\ Len(apiExchange.addresses.v) \in 1..maxDistribution
      /\ \A i \in 1..Len(apiExchange.addresses.v) :
           validAddress(apiExchange.addresses.v[i])
      /\ apiExchange.indexer = "error")
       => apiExchange.status = 500

\* the request holds a string that starts with neither addr1 nor stake1
holdsInvalidAddress ==
  \/ /\ apiExchange.route \in {"/relationships/analyze", "/relationships/graph"}
     /\ apiExchange.address.t = "string"
     /\ apiExchange.address.v # <<>>
     /\ invalidFormat(apiExchange.address.v)
  \/ /\ apiExchange.route \in {"/ownership/beneficial", "/ownership/distribution"}
     /\ apiExchange.addresses.t = "array"
     /\ \E i \in 1..Len(apiExchange.addresses.v) :
          /\ apiExchange.addresses.v[i].t = "string"
          /\ invalidFormat(apiExchange.addresses.v[i].v)
     /\ \A i \in 1..Len(apiExchange.addresses.v) : apiExchange.addresses.v[i].t = "string"

\* C15: each of the four analysis endpoints answers 400, before any call to
\* the indexer, to a request that holds an address starting with neither
\* addr1 nor stake1.
C15_InvalidAddressIs400 ==
  holdsInvalidAddress => apiExchange.status = 400 /\ apiExchange.indexerCalls = 0

(***************************************************************************)
(* public/deposit-client.js: the deposit page.  Amounts are in units of    *)
(* half an ADA.  An async function is one step up to its first await that  *)
(* waits for the network or the wallet, and one step for the rest.         *)
(***************************************************************************)
\* the largest amount typed, in half ADA
MaxAmount == 3
\* adaAmount < 1: one ADA
oneAda == 2
\* adaAmount > 1000000
tooLarge == 2000000

ValidAmounts == oneAda..MaxAmount

\* what the amount field can hold: nothing, half an ADA, an amount
AmountInputs == {NaN, 1} \cup ValidAmounts

\* updatePrepareButton
updatePrepareButton(c) ==
  [c EXCEPT !.prepareDisabled =
     ~(c.connectedWallet /\ c.previewComputed /\ c.amountInput # NaN
         /\ c.amountInput >= oneAda)]

\* updatePreview up to its await of estimateFee
updatePreview(c) ==
  IF c.amountInput = NaN \/ c.amountInput <= 0 \/ c.amountInput < oneAda
  THEN updatePrepareButton([c EXCEPT !.previewComputed = FALSE])
  ELSE [c EXCEPT !.updating = @ \cup {c.amountInput}]

ClientUnchanged ==
  /\ UNCHANGED preview
  /\ UNCHANGED <<slurpVars, httpVars, analyzerVars, runVars>>

\* connectWallet: the wallet is enabled or the user declines
ClientConnect ==
  /\ ~client.isProcessing
  /\ \E outcome \in {"ok", "declined"} :
       client' = IF outcome = "ok"
                 THEN updatePreview([client EXCEPT !.connectedWallet = TRUE])
                 ELSE updatePrepareButton([client EXCEPT !.connectedWallet = FALSE])
  /\ ClientUnchanged

\* the 'input' listener of the amount field: the debounce timer is set anew
ClientInput ==
  /\ \E a \in AmountInputs :
       client' = [client EXCEPT !.amountInput = a, !.previewDebounceTimer = TRUE]
  /\ ClientUnchanged

\* 300 ms later: updatePreview
ClientDebounce ==
  /\ client.previewDebounceTimer
  /\ client' = updatePreview([client EXCEPT !.previewDebounceTimer = FALSE])
  /\ ClientUnchanged

\* the 'change' listener of the network selection: updatePreview at once
ClientNetworkChange ==
  /\ client' = updatePreview(client)
  /\ ClientUnchanged

\* updatePreview after estimateFee: the preview of the amount it read is shown
\* (the catch shows a default fee and sets previewComputed as well)
ClientPreviewDone ==
  /\ \E a \in client.updating :
       client' = updatePrepareButton(
                   [client EXCEPT !.updating = @ \ {a}, !.previewComputed = TRUE,
                                  !.previewAmount = a])
  /\ ClientUnchanged

\* prepareDeposit up to its await of buildTxViaServer: a click on the enabled
\* prepare button
ClientPrepare ==
  /\ ~client.prepareDisabled
  /\ client' =
       IF ~client.connectedWallet \/ ~client.previewComputed \/ client.isProcessing
       THEN client
       ELSE LET a == client.amountInput
                passed == [client EXCEPT !.checked = [passed |-> TRUE, amount |-> a,
                                                      preview |-> client.previewAmount]]
            IN IF a = NaN \/ a < oneAda \/ a > tooLarge
               THEN \* throw, catch, finally
                    updatePrepareButton([passed EXCEPT !.isProcessing = FALSE])
               ELSE [passed EXCEPT !.isProcessing = TRUE, !.prepareDisabled = TRUE,
                                   !.building = [amount |-> a,
                                                 preview |-> client.previewAmount]]
  /\ ClientUnchanged

\* prepareDeposit after the transaction was built, or could not be built
ClientPrepareDone ==
  /\ client.building # NoTx
  /\ \E outcome \in {"ok", "Server unavailable"} :
       client' = updatePrepareButton(
                   IF outcome = "ok"
                   THEN [client EXCEPT !.pendingTx = client.building, !.modal = TRUE,
                                       !.building = NoTx, !.isProcessing = FALSE]
                   ELSE [client EXCEPT !.building = NoTx, !.isProcessing = FALSE])
  /\ ClientUnchanged

\* signAndSubmit up to its await of signTx: a click on 'Sign & Send'
ClientSign ==
  /\ client.modal
  /\ client' =
       IF client.isProcessing \/ client.pendingTx = NoTx \/ ~client.connectedWallet
       THEN client
       ELSE [client EXCEPT !.isProcessing = TRUE, !.signing = TRUE,
                           !.signTx = client.pendingTx]
  /\ ClientUnchanged

\* signAndSubmit after signTx and the submission: on success the modal is
\* closed ten seconds later
ClientSignDone ==
  /\ client.signing
  /\ \E outcome \in {"ok", "declined"} :
       client' = [client EXCEPT !.signing = FALSE, !.isProcessing = FALSE,
                                !.resetTimer = IF outcome = "ok" THEN TRUE ELSE @]
  /\ ClientUnchanged

\* the ten seconds are over: closeModal, pendingTx = null
ClientReset ==
  /\ client.resetTimer
  /\ client' = [client EXCEPT !.resetTimer = FALSE, !.modal = FALSE, !.pendingTx = NoTx]
  /\ ClientUnchanged

\* Escape, or a click outside the modal: closeModal
ClientCloseModal ==
  /\ client.modal
  /\ client' = [client EXCEPT !.modal = FALSE]
  /\ ClientUnchanged

InitClient ==
  /\ ClientParked /\ RunParked
  /\ SlurpParked
  /\ HttpParked
  /\ AnalyzerParked

NextClient ==
  \/ ClientConnect
  \/ ClientInput
  \/ ClientDebounce
  \/ ClientNetworkChange
  \/ ClientPreviewDone
  \/ ClientPrepare
  \/ ClientPrepareDone
  \/ ClientSign
  \/ ClientSignDone
  \/ ClientReset
  \/ ClientCloseModal

SpecClient == InitClient /\ [][NextClient]_vars

(***************************************************************************)
(* Claims about public/deposit-client.js, checked under SpecClient.        *)
(***************************************************************************)
\* C18: the deposit preview comes before signing: whenever prepareDeposit
\* passes its preview check, the most recently computed preview is for the
\* amount being deposited, and the transaction handed to the wallet's signTx
\* is for the amount of the preview that check found.
C18_PreviewBeforeSigning ==
  /\ client.checked.passed => client.checked.preview = client.checked.amount
  /\ client.signTx # NoTx => client.signTx.preview = client.signTx.amount

(***************************************************************************)
(* The deposit client with generatePreview: fee estimation and the preview *)
(* button.  Fees are in lovelace, amounts in units of half an ADA.         *)
(***************************************************************************)
\* the names the script declares among those its fee functions read
DeclaredNames == {"FALLBACK_FEE_BASE_ADA", "FALLBACK_FEE_PER_BYTE", "FALLBACK_ESTIMATED_BYTES"}

\* the first function calculateFallbackFee(): 0.17 + 0.0001 * 200 ADA, here in
\* lovelace.  The second declaration of the same name replaces it.
calculateFallbackFeeAda == 170000 + 100 * 200

\* the second function calculateFallbackFee(estimatedTxSize =
\* ESTIMATED_TX_SIZE_BYTES), the one a call reaches: args is the argument
\* list.  Reading a name that is not declared throws a ReferenceError.
calculateFallbackFee(args) ==
  IF args = <<>> /\ "ESTIMATED_TX_SIZE_BYTES" \notin DeclaredNames
  THEN [ok |-> FALSE, thrown |-> "ESTIMATED_TX_SIZE_BYTES is not defined", value |-> 0]
  ELSE IF "FEE_CONSTANT_LOVELACE" \notin DeclaredNames
  THEN [ok |-> FALSE, thrown |-> "FEE_CONSTANT_LOVELACE is not defined", value |-> 0]
  ELSE [ok |-> TRUE, thrown |-> "", value |-> 155381 + 44 * args[1] + 30000]

\* the fee the server or the local builder reports for the transaction
BuiltFees == {168317}

\* estimateFee: the server's build-tx, then the local build with the key of
\* the page, then the fallback
estimateFee(serverOutcome, keySupplied, localOutcome, fee) ==
  IF serverOutcome = "ok"
  THEN [ok |-> TRUE, thrown |-> "", source |-> "server", feeLovelace |-> fee,
        unsignedTxCborHex |-> TRUE]
  ELSE IF keySupplied /\ localOutcome = "ok"
  THEN [ok |-> TRUE, thrown |-> "", source |-> "blockfrost", feeLovelace |-> fee,
        unsignedTxCborHex |-> TRUE]
  ELSE LET fallbackFeeAda == calculateFallbackFee(<<>>) IN
       IF ~fallbackFeeAda.ok
       THEN [NoFeeResult EXCEPT !.thrown = fallbackFeeAda.thrown]
       ELSE \* Math.floor(fallbackFeeAda * 1000000)
            [ok |-> TRUE, thrown |-> "", source |-> "fallback",
             feeLovelace |-> fallbackFeeAda.value * 1000000,
             unsignedTxCborHex |-> FALSE]

\* showPreviewError
showPreviewError(p) == [p EXCEPT !.previewError = TRUE, !.previewShown = TRUE]

PreviewUnchanged ==
  /\ UNCHANGED client
  /\ UNCHANGED <<slurpVars, httpVars, analyzerVars, runVars>>

\* handleWalletConnected
PreviewWalletConnected ==
  /\ preview' = [preview EXCEPT !.connectedWallet = TRUE, !.previewDisabled = FALSE,
                                !.done = FALSE]
  /\ PreviewUnchanged

\* handleWalletDisconnected
PreviewWalletDisconnected ==
  /\ preview.connectedWallet
  /\ preview' = [preview EXCEPT !.connectedWallet = FALSE, !.pendingTx = NoAmount,
                                !.previewGenerated = FALSE, !.previewDisabled = TRUE,
                                !.prepareDisabled = TRUE,
                                !.previewShown = FALSE, !.done = FALSE]
  /\ PreviewUnchanged

\* the 'input' listener of the amount field, and typing or clearing the
\* Blockfrost key of the page
PreviewInput ==
  /\ \/ \E a \in AmountInputs :
          preview' = [preview EXCEPT !.amountInput = a, !.previewGenerated = FALSE,
                                     !.prepareDisabled = TRUE, !.done = FALSE]
     \/ preview' = [preview EXCEPT !.blockfrostKey = ~@]
  /\ PreviewUnchanged

\* generatePreview up to its await of estimateFee: a click on the enabled
\* preview button
GeneratePreview ==
  /\ ~preview.previewDisabled
  /\ preview' =
       IF preview.isProcessing THEN preview
       ELSE IF ~preview.connectedWallet THEN showPreviewError(preview)
       ELSE IF preview.amountInput = NaN \/ preview.amountInput < oneAda
       THEN showPreviewError(preview)
       ELSE IF preview.amountInput > tooLarge THEN showPreviewError(preview)
       ELSE [preview EXCEPT !.isProcessing = TRUE, !.previewDisabled = TRUE,
                            !.previewError = FALSE, !.done = FALSE,
                            !.estimating = preview.amountInput]
  /\ PreviewUnchanged

\* generatePreview after estimateFee: the preview, or the catch; the finally
GeneratePreviewDone ==
  /\ preview.estimating # NoAmount
  /\ \E serverOutcome \in {"ok", "503", "Failed to fetch"},
        localOutcome \in {"ok", "Blockfrost 403"}, fee \in BuiltFees :
       LET feeResult == estimateFee(serverOutcome, preview.blockfrostKey, localOutcome, fee)
           shown == IF feeResult.ok
                    THEN [preview EXCEPT !.pendingTx = preview.estimating,
                                         !.previewShown = TRUE,
                                         !.prepareDisabled = FALSE,
                                         !.previewGenerated = TRUE]
                    ELSE [showPreviewError(preview) EXCEPT !.previewGenerated = FALSE]
       IN preview' = [shown EXCEPT !.feeResult = feeResult, !.estimating = NoAmount,
                                   !.isProcessing = FALSE, !.previewDisabled = FALSE,
                                   !.done = TRUE, !.server = serverOutcome,
                                   !.keySupplied = preview.blockfrostKey]
  /\ PreviewUnchanged

\* prepareDeposit: a click on the enabled 'Confirm & Sign' button; when the
\* preview holds no pre-built transaction, the function awaits its build
PreviewPrepare ==
  /\ \/ /\ ~preview.prepareDisabled
        /\ preview' =
             IF preview.isProcessing \/ ~preview.connectedWallet THEN preview
             ELSE IF ~preview.previewGenerated \/ preview.pendingTx = NoAmount
             THEN showPreviewError(preview)
             ELSE IF preview.feeResult.unsignedTxCborHex
             THEN \* showConfirmModal, then the finally
                  [preview EXCEPT !.modal = TRUE, !.isProcessing = FALSE,
                                  !.prepareDisabled = ~preview.previewGenerated,
                                  !.done = FALSE]
             ELSE [preview EXCEPT !.isProcessing = TRUE, !.prepareDisabled = TRUE,
                                  !.preparing = TRUE, !.done = FALSE]
     \/ /\ preview.preparing
        /\ \E outcome \in {"ok", "Server unavailable"} :
             preview' = [preview EXCEPT
                           !.modal = IF outcome = "ok" /\ preview.pendingTx # NoAmount
                                     THEN TRUE ELSE @,
                           !.preparing = FALSE, !.isProcessing = FALSE,
                           !.prepareDisabled = ~preview.previewGenerated]
  /\ PreviewUnchanged

\* signAndSubmit without its test of isProcessing
PreviewSignUnguarded ==
  /\ preview.modal
  /\ preview' =
       IF preview.pendingTx = NoAmount \/ ~preview.connectedWallet
       THEN preview
       ELSE [preview EXCEPT !.isProcessing = TRUE, !.signing = TRUE, !.done = FALSE]
  /\ PreviewUnchanged

\* signAndSubmit up to its await of signTx: a click on 'Sign & Send'
PreviewSign ==
  /\ preview.modal
  /\ preview' =
       IF preview.isProcessing \/ preview.pendingTx = NoAmount \/ ~preview.connectedWallet
       THEN preview
       ELSE [preview EXCEPT !.isProcessing = TRUE, !.signing = TRUE, !.done = FALSE]
  /\ PreviewUnchanged

\* signAndSubmit after signTx and the submission; the catch; the finally
PreviewSignDone ==
  /\ preview.signing
  /\ \E outcome \in {"ok", "declined", "no message"} :
       preview' = [preview EXCEPT !.signing = FALSE, !.isProcessing = FALSE,
                                  !.resetTimer = IF outcome = "ok" THEN TRUE ELSE @]
  /\ PreviewUnchanged

\* ten seconds after a submission: closeModal, and the preview is reset
PreviewReset ==
  /\ preview.resetTimer
  /\ preview' = [preview EXCEPT !.resetTimer = FALSE, !.modal = FALSE,
                                !.pendingTx = NoAmount, !.previewGenerated = FALSE,
                                !.previewShown = FALSE, !.prepareDisabled = TRUE,
                                !.done = FALSE]
  /\ PreviewUnchanged

\* Escape, or a click outside the modal: closeModal
PreviewCloseModal ==
  /\ preview.modal
  /\ preview' = [preview EXCEPT !.modal = FALSE]
  /\ PreviewUnchanged

InitPreview ==
  /\ ClientParked /\ RunParked
  /\ SlurpParked
  /\ HttpParked
  /\ AnalyzerParked

NextPreview ==
  \/ PreviewWalletConnected
  \/ PreviewWalletDisconnected
  \/ PreviewInput
  \/ GeneratePreview
  \/ GeneratePreviewDone
  \/ PreviewPrepare
  \/ PreviewSign
  \/ PreviewSignDone
  \/ PreviewReset
  \/ PreviewCloseModal

SpecPreview == InitPreview /\ [][NextPreview]_vars

(***************************************************************************)
(* Claims about the fee estimation, checked under SpecPreview.             *)
(***************************************************************************)
\* C19: when the server's build-tx request fails and no Blockfrost key is
\* supplied, estimateFee resolves with source 'fallback', a positive fee of
\* about 0.19-0.20 ADA and no pre-built transaction, and generatePreview ends
\* with the preview shown and previewGenerated true.
C19_FallbackFee ==
  (preview.done /\ preview.server # "ok" /\ ~preview.keySupplied)
    => /\ preview.feeResult.ok
       /\ preview.feeResult.source = "fallback"
       /\ preview.feeResult.feeLovelace \in 190000..201000
       /\ ~preview.feeResult.unsignedTxCborHex
       /\ preview.previewShown /\ ~preview.previewError
       /\ preview.previewGenerated

\* the operations of the page with generatePreview that are awaiting a call
previewRunning ==
  {op \in {"generatePreview", "prepareDeposit", "signAndSubmit"} :
     \/ op = "generatePreview" /\ preview.estimating # NoAmount
     \/ op = "prepareDeposit" /\ preview.preparing
     \/ op = "signAndSubmit" /\ preview.signing}

\* the operations of public/deposit-client.js that are awaiting a call
clientRunning ==
  {op \in {"prepareDeposit", "signAndSubmit"} :
     \/ op = "prepareDeposit" /\ client.building # NoTx
     \/ op = "signAndSubmit" /\ client.signing}

MaxRuns == 2

\* what a failed call rejects with: an Error with a message, or a value that
\* is no Error (a string, as a WebAssembly library throws it)
Rejections ==
  {[error |-> TRUE, message |-> m] : m \in ErrorMessages}
    \cup {[error |-> FALSE, message |-> "InputsExhaustedError"]}

\* res.status(status).json(...), after which the handler returns
respond(r, status) == [r EXCEPT !.responses = @ + 1, !.status = status, !.pc = "end"]

\* the handler's promise rejects: nothing is sent
rejects(r) == [r EXCEPT !.pc = "end"]

\* the catch of build-tx: error.message.includes('UTxO') throws a TypeError
\* when the value caught has no message
buildTxCatchRun(r, rejection) ==
  IF ~rejection.error THEN rejects(r)
  ELSE IF includesUTxO(rejection.message) THEN respond(r, 400)
  ELSE respond(r, 500)

RunBodies(handler) ==
  CASE handler = "slurp" -> {"missing", "invalid tier", "ok"}
    [] handler = "check-eligibility" -> {"missing", "ok"}
    [] handler = "build-tx" -> {"invalid", "no BigInt", "ok"}
    [] handler = "submit" -> {"invalid", "ok"}

\* the handler from its start to its first await
started(r) ==
  CASE r.handler = "slurp" ->
         IF r.body # "ok" THEN respond(r, 400)
         ELSE [r EXCEPT !.pc = IF rateLimitingEnabled THEN "checkRecentClaims"
                               ELSE "validateTransaction"]
    [] r.handler = "check-eligibility" ->
         IF r.body # "ok" THEN respond(r, 400)
         ELSE [r EXCEPT !.pc = IF rateLimitingEnabled THEN "checkRecentClaims"
                               ELSE "checkMemeTokens"]
    [] r.handler = "build-tx" ->
         IF r.body = "invalid" THEN respond(r, 400)
         ELSE IF r.body = "no BigInt"
         THEN buildTxCatchRun(r, [error |-> TRUE, message |-> "Cannot convert to a BigInt"])
         ELSE IF notConfigured THEN respond(r, 503)
         ELSE [r EXCEPT !.pc = "getLucid"]
    [] r.handler = "submit" ->
         IF r.body = "invalid" THEN respond(r, 400)
         ELSE IF notConfigured THEN respond(r, 503)
         ELSE [r EXCEPT !.pc = "getLucid"]

RunUnchanged == UNCHANGED <<slurpVars, httpVars, analyzerVars, clientVars>>

\* a request reaches a route handler
RunStart ==
  /\ run.pc \in {"idle", "end"}
  /\ run.id < MaxRuns
  /\ \E handler \in {"slurp", "check-eligibility", "build-tx", "submit"} :
       \E body \in RunBodies(handler) :
          run' = started([id |-> run.id + 1, handler |-> handler, body |-> body,
                          pc |-> "start", responses |-> 0, status |-> 0])
  /\ RunUnchanged

\* router.post('/slurp'): the awaited call returns or fails
RunSlurp ==
  /\ run.handler = "slurp"
  /\ \/ /\ run.pc = "checkRecentClaims"
        /\ \E hasClaimedToday \in BOOLEAN :
             run' = IF hasClaimedToday THEN respond(run, 429)
                    ELSE [run EXCEPT !.pc = "validateTransaction"]
     \/ /\ run.pc = "validateTransaction"
        /\ \E valid \in BOOLEAN :
             run' = IF ~valid THEN respond(run, 400)
                    ELSE [run EXCEPT !.pc = "sendHKDGTokens"]
     \/ /\ run.pc = "sendHKDGTokens"
        /\ \E outcome \in {"ok", "no success", "rejected"} :
             run' = IF outcome = "ok" THEN [run EXCEPT !.pc = "logSlurp"]
                    ELSE respond(run, 500)
     \/ /\ run.pc = "logSlurp"
        /\ run' = respond(run, 200)
  /\ RunUnchanged

\* router.post('/check-eligibility'): its helpers catch their own errors
RunCheckEligibility ==
  /\ run.handler = "check-eligibility"
  /\ \/ /\ run.pc = "checkRecentClaims"
        /\ \E hasClaimedToday \in BOOLEAN :
             run' = IF hasClaimedToday THEN respond(run, 200)
                    ELSE [run EXCEPT !.pc = "checkMemeTokens"]
     \/ /\ run.pc = "checkMemeTokens"
        /\ \E hasMemeTokens \in BOOLEAN :
             run' = IF hasMemeTokens THEN respond(run, 200)
                    ELSE [run EXCEPT !.pc = "checkAdaBalance"]
     \/ /\ run.pc = "checkAdaBalance"
        /\ run' = respond(run, 200)
  /\ RunUnchanged

\* app.post('/api/build-tx')
RunBuildTx ==
  /\ run.handler = "build-tx"
  /\ \/ /\ run.pc = "getLucid"
        /\ \/ \E check \in {"ok", "address", "network"} :
                run' = IF check = "ok" THEN [run EXCEPT !.pc = "complete"]
                       ELSE respond(run, 400)
           \/ \E rejection \in Rejections : run' = buildTxCatchRun(run, rejection)
     \/ /\ run.pc = "complete"
        /\ \/ run' = respond(run, 200)
           \/ \E rejection \in Rejections : run' = buildTxCatchRun(run, rejection)
  /\ RunUnchanged

\* app.post('/api/submit'): its catch reads error.message and answers 500
RunSubmit ==
  /\ run.handler = "submit"
  /\ \/ /\ run.pc = "getLucid"
        /\ \E outcome \in {"ok", "fromTx throws", "rejected"} :
             run' = IF outcome = "ok" THEN [run EXCEPT !.pc = "submit"]
                    ELSE respond(run, 500)
     \/ /\ run.pc = "submit"
        /\ \E outcome \in {"ok", "rejected"}, logged \in BOOLEAN :
             run' = IF outcome # "ok" THEN respond(run, 500)
                    ELSE IF dbModules # "none" /\ logged THEN [run EXCEPT !.pc = "db.query"]
                    ELSE respond(run, 200)
     \/ /\ run.pc = "db.query"
        /\ run' = respond(run, 200)
  /\ RunUnchanged

InitRun ==
  /\ RunParked
  /\ HttpInit
  /\ SlurpParked
  /\ AnalyzerParked
  /\ client = NoClient
  /\ preview = NoPreview

NextRun ==
  \/ RunStart
  \/ RunSlurp
  \/ RunCheckEligibility
  \/ RunBuildTx
  \/ RunSubmit

\* every awaited call returns or fails
SpecRun ==
  /\ InitRun
  /\ [][NextRun]_vars
  /\ WF_vars(RunSlurp)
  /\ WF_vars(RunCheckEligibility)
  /\ WF_vars(RunBuildTx)
  /\ WF_vars(RunSubmit)

(***************************************************************************)
(* Claims about the handlers, checked under SpecRun.                       *)
(***************************************************************************)
\* C20: every request that reaches a route handler of the faucet server or
\* the deposit server is eventually answered with exactly one response,
\* never none and never two, provided each awaited call returns or fails.
C20_ExactlyOneResponse ==
  /\ [](run.responses <= 1)
  /\ \A id \in 1..MaxRuns :
       (run.id = id) ~> (run.id = id /\ run.pc = "end" /\ run.responses = 1)

====
